---------------------------- MODULE Spec2Model ----------------------------
(***************************************************************************)
(* Texter: a voice-controlled dictation assistant.                         *)
(*                                                                         *)
(* The model has two threads: the main thread, which runs the Tk window    *)
(* (src/src/ui/texter_ui.py), and the daemon thread running the live       *)
(* speech interpreter (src/src/utils/live_speech_interpreter.py, and the   *)
(* earlier snapshot src/src/SpeechRecognitionUtils.py).  They share one    *)
(* AppState (src/src/state/app_state.py).  Python strings are TLA+         *)
(* strings; TLC evaluates Len, SubSeq and \o on them.                      *)
(***************************************************************************)
EXTENDS Integers, Sequences, FiniteSets, TLC

(***************************************************************************)
(* Python str operations                                                   *)
(***************************************************************************)

\* s[i-1] in Python: the i-th character, as a string of length one
CharAt(s, i) == SubSeq(s, i, i)

\* s[k:]
SliceFrom(s, k) == SubSeq(s, k + 1, Len(s))

\* text.startswith(name)
StartsWith(text, name) ==
    /\ Len(name) <= Len(text)
    /\ SubSeq(text, 1, Len(name)) = name

\* needle in text
Contains(text, needle) ==
    \E i \in 1..(Len(text) + 1) :
        /\ i + Len(needle) - 1 <= Len(text)
        /\ SubSeq(text, i, i + Len(needle) - 1) = needle

\* text.replace(target, replacement): every non-overlapping occurrence, left to right
RECURSIVE StrReplace(_, _, _)
StrReplace(text, target, replacement) ==
    IF Len(text) = 0 \/ Len(target) = 0 THEN text
    ELSE IF StartsWith(text, target)
         THEN replacement \o StrReplace(SliceFrom(text, Len(target)), target, replacement)
         ELSE CharAt(text, 1) \o StrReplace(SliceFrom(text, 1), target, replacement)

\* text.strip(): the only whitespace the recognizer produces is the space
RECURSIVE LStrip(_)
LStrip(s) == IF Len(s) > 0 /\ CharAt(s, 1) = " " THEN LStrip(SliceFrom(s, 1)) ELSE s

RECURSIVE RStrip(_)
RStrip(s) ==
    IF Len(s) > 0 /\ CharAt(s, Len(s)) = " " THEN RStrip(SubSeq(s, 1, Len(s) - 1)) ELSE s

Strip(s) == LStrip(RStrip(s))

\* text.split(): split on runs of whitespace, no empty words
RECURSIVE SplitWs(_, _)
SplitWs(s, word) ==
    IF Len(s) = 0 THEN (IF word = "" THEN <<>> ELSE <<word>>)
    ELSE IF CharAt(s, 1) = " "
         THEN (IF word = "" THEN <<>> ELSE <<word>>) \o SplitWs(SliceFrom(s, 1), "")
         ELSE SplitWs(SliceFrom(s, 1), word \o CharAt(s, 1))

Split(s) == SplitWs(s, "")

\* text.split(" "): split on each single space, empty words kept
RECURSIVE SplitSp(_, _)
SplitSp(s, word) ==
    IF Len(s) = 0 THEN <<word>>
    ELSE IF CharAt(s, 1) = " "
         THEN <<word>> \o SplitSp(SliceFrom(s, 1), "")
         ELSE SplitSp(SliceFrom(s, 1), word \o CharAt(s, 1))

SplitOnSpace(s) == SplitSp(s, "")

\* sep.join(parts)
RECURSIVE Join(_, _)
Join(parts, sep) ==
    IF Len(parts) = 0 THEN ""
    ELSE IF Len(parts) = 1 THEN parts[1]
    ELSE parts[1] \o sep \o Join(Tail(parts), sep)

LowerLetters == "abcdefghijklmnopqrstuvwxyz"
UpperLetters == "ABCDEFGHIJKLMNOPQRSTUVWXYZ"
Digits == "0123456789"

IsLower(c) == \E i \in 1..26 : CharAt(LowerLetters, i) = c
IsUpper(c) == \E i \in 1..26 : CharAt(UpperLetters, i) = c

\* c.upper() and c.lower() of one character
UpperChar(c) ==
    IF IsLower(c) THEN CharAt(UpperLetters, CHOOSE i \in 1..26 : CharAt(LowerLetters, i) = c)
    ELSE c

LowerChar(c) ==
    IF IsUpper(c) THEN CharAt(LowerLetters, CHOOSE i \in 1..26 : CharAt(UpperLetters, i) = c)
    ELSE c

RECURSIVE Lower(_)
Lower(s) == IF Len(s) = 0 THEN "" ELSE LowerChar(CharAt(s, 1)) \o Lower(SliceFrom(s, 1))

\* s.capitalize(): first character upper-cased, the rest lower-cased
Capitalize(s) == IF Len(s) = 0 THEN "" ELSE UpperChar(CharAt(s, 1)) \o Lower(SliceFrom(s, 1))

\* s.isdigit()
IsDigit(s) ==
    /\ Len(s) > 0
    /\ \A i \in 1..Len(s) : \E d \in 1..10 : CharAt(Digits, d) = CharAt(s, i)

(***************************************************************************)
(* String utilities (src/src/utils/string_utils.py)                        *)
(***************************************************************************)

\* A call that returns val, or raises the exception named by exc
Returned(v) == [exc |-> "", val |-> v]
Raised(e) == [exc |-> e, val |-> ""]

RECURSIVE MapCapitalize(_)
MapCapitalize(words) ==
    IF Len(words) = 0 THEN <<>> ELSE <<Capitalize(words[1])>> \o MapCapitalize(Tail(words))

\* capitalized_words[0] = capitalized_words[0].lower() raises IndexError on no words
string_to_camel_case(input_str, lower) ==
    LET capitalized_words == MapCapitalize(Split(input_str))
    IN  IF lower
        THEN IF Len(capitalized_words) = 0 THEN Raised("IndexError")
             ELSE Returned(Join(<<Lower(capitalized_words[1])>> \o Tail(capitalized_words), ""))
        ELSE Returned(Join(capitalized_words, ""))

string_to_snake_case(input_str) == StrReplace(input_str, " ", "_")

NumberWords == <<"zero", "one", "two", "three", "four", "five", "six", "seven", "eight", "nine">>


\* int(s) of a string of decimal digits
RECURSIVE IntOfDigits(_, _)
IntOfDigits(s, acc) ==
    IF Len(s) = 0 THEN acc
    ELSE IntOfDigits(SliceFrom(s, 1),
                     acc * 10 + ((CHOOSE d \in 1..10 : CharAt(Digits, d) = CharAt(s, 1)) - 1))

\* int(s): surrounding whitespace is ignored; ValueError unless the rest is all digits
ParseInt(s) == IF IsDigit(Strip(s)) THEN Returned(IntOfDigits(Strip(s), 0)) ELSE Raised("ValueError")

\* w2n.word_to_num on one word: a string of digits gives its value, a single-digit
\* number word its digit; ValueError otherwise
word_to_num(w) ==
    IF IsDigit(w) THEN Returned(IntOfDigits(w, 0))
    ELSE IF \E i \in 1..10 : NumberWords[i] = w
    THEN Returned((CHOOSE i \in 1..10 : NumberWords[i] = w) - 1)
    ELSE Raised("ValueError")

\* acc with room made for the decimal digits of n: int(str(acc) + str(n)) = Shifted(acc, n) + n
RECURSIVE Shifted(_, _)
Shifted(acc, n) == IF n < 10 THEN acc * 10 ELSE Shifted(acc * 10, n \div 10)

\* int("".join(str(w2n.word_to_num(w)) for w in numeric_str.split(" ")))
RECURSIVE ConcatNums(_, _)
ConcatNums(words, acc) ==
    IF Len(words) = 0 THEN Returned(acc)
    ELSE LET n == word_to_num(words[1])
         IN  IF n.exc # "" THEN n ELSE ConcatNums(Tail(words), Shifted(acc, n.val) + n.val)

numeric_str_to_int(numeric_str) == ConcatNums(SplitOnSpace(numeric_str), 0)

\* the first field of text.split(":")
BeforeColon(text) ==
    SubSeq(text, 1, (CHOOSE i \in 1..Len(text) :
                        /\ CharAt(text, i) = ":"
                        /\ \A j \in 1..(i - 1) : CharAt(text, j) # ":") - 1)

\* 1 on ValueError
extract_number_from_string(text) ==
    LET r == IF Contains(text, ":") THEN ParseInt(BeforeColon(text))
             ELSE IF IsDigit(text) THEN ParseInt(text)
             ELSE numeric_str_to_int(text)
    IN  IF r.exc = "ValueError" THEN 1 ELSE r.val

\* command.action of a spelling command: the character the command stands for
action(command) == command.key

\* {command.name: command.action for command in spelling_commands}.get(word, ""):
\* a dict comprehension keeps the value of the last entry of each name
WordToKey(spelling_commands, word) ==
    IF \E i \in 1..Len(spelling_commands) : spelling_commands[i].name = word
    THEN action(spelling_commands[CHOOSE i \in 1..Len(spelling_commands) :
                    /\ spelling_commands[i].name = word
                    /\ \A j \in (i + 1)..Len(spelling_commands) :
                           spelling_commands[j].name # word])
    ELSE ""

RECURSIVE SpellWords(_, _)
SpellWords(words, spelling_commands) ==
    IF Len(words) = 0 THEN ""
    ELSE WordToKey(spelling_commands, words[1]) \o SpellWords(Tail(words), spelling_commands)

convert_to_spelling(text, spelling_commands) == SpellWords(Split(text), spelling_commands)

\* convert_to_spelling of the first evolution (src/src/helperFunctions.py): for each word
\* the key of the first command of that name, then break
RECURSIVE legacy_convert_to_spelling_words(_, _)
legacy_convert_to_spelling_words(words, spelling_commands) ==
    IF Len(words) = 0 THEN ""
    ELSE (IF \E i \in 1..Len(spelling_commands) : spelling_commands[i].name = words[1]
          THEN spelling_commands[CHOOSE i \in 1..Len(spelling_commands) :
                   /\ spelling_commands[i].name = words[1]
                   /\ \A j \in 1..(i - 1) : spelling_commands[j].name # words[1]].key
          ELSE "")
         \o legacy_convert_to_spelling_words(Tail(words), spelling_commands)

legacy_convert_to_spelling(text, spelling_commands) ==
    legacy_convert_to_spelling_words(Split(text), spelling_commands)

\* replacements, applied in dictionary order
process_special_cases(text) ==
    StrReplace(StrReplace(StrReplace(StrReplace(text,
        "dexter", "texter"), "texture", "texter"), "lift", "left"), "wright", "right")

(***************************************************************************)
(* Commands and the command files                                          *)
(***************************************************************************)

\* CommandManager(name, command_type, key, num_key)
CommandManager(name, command_type, key, num_key) ==
    [name |-> name, command_type |-> command_type, key |-> key, num_key |-> num_key]

\* cmd.get(field, "")
Get(cmd, field) == IF field \in DOMAIN cmd THEN cmd[field] ELSE ""

\* The value of an attribute that holds None instead of a list of commands
None == <<CommandManager("<None>", "NONE", "", "")>>

\* The dictionary get_commands merges from the *commands.json files of a session
Config ==
    [keyboard_commands |-> <<
        [name |-> "go", command_type |-> "keyboard", key |-> "enter", num_key |-> "go"],
        [name |-> "tab two", command_type |-> "keyboard", key |-> "tab", num_key |-> "tab "] >>,
     switch_commands |-> <<
        [name |-> "go to sleep"], [name |-> "wake up"],
        [name |-> "programming on"], [name |-> "programming off"],
        [name |-> "terminal on"], [name |-> "terminal off"],
        [name |-> "switch mode"], [name |-> "switch punctuation"], [name |-> "switch caps"],
        [name |-> "switch to java"], [name |-> "switch to python"],
        [name |-> "switch to windows"], [name |-> "switch to linux"] >>,
     info_commands |-> << [name |-> "my email", key |-> "me@example.com"] >>,
     selection_commands |-> << [name |-> "select all"] >>,
     python_commands |-> <<
        [name |-> "print statement", key |-> "print statement"],
        [name |-> "integer", key |-> "integer"] >>,
     java_commands |-> <<
        [name |-> "print statement", key |-> "print statement"],
        [name |-> "create class", key |-> "create class"] >>,
     linux_commands |-> <<
        [name |-> "list directory contents", key |-> "ls"],
        [name |-> "change permissions", key |-> "chmod "] >>,
     windows_commands |-> <<
        [name |-> "list directory contents", key |-> "dir"],
        [name |-> "change permissions", key |-> "icacls "] >>,
     spelling_commands |-> << [name |-> "alpha", key |-> "a"], [name |-> "bravo", key |-> "b"] >>,
     git_commands |-> << [name |-> "git status", key |-> "git status"] >>,
     interactive_commands |-> << [name |-> "what time is it"] >>,
     browser_commands |-> << [name |-> "new tab"] >>]

RECURSIVE LoadList(_, _)
LoadList(commands_list, command_type) ==
    IF Len(commands_list) = 0 THEN <<>>
    ELSE <<CommandManager(Get(commands_list[1], "name"), command_type,
                          Get(commands_list[1], "key"), Get(commands_list[1], "num_key"))>>
         \o LoadList(Tail(commands_list), command_type)

\* AppState._load_commands
_load_commands(commands_list, command_type) == LoadList(commands_list, command_type)

(***************************************************************************)
(* What the simulated keyboard, the loudspeaker and the log receive while  *)
(* one utterance is processed                                              *)
(***************************************************************************)
Write(text) == [op |-> "write", arg |-> text]          \* gui.write(text)
Hotkey(keys) == [op |-> "hotkey", arg |-> keys]        \* gui.hotkey(*keys), keys joined by +
Speak(text) == [op |-> "speak", arg |-> text]          \* text_to_speech(text)

RECURSIVE Repeat(_, _)
Repeat(event, n) == IF n <= 0 THEN <<>> ELSE <<event>> \o Repeat(event, n - 1)

\* The effect of a call on the application: the state it leaves, the output it
\* produced, the print_status calls it made and the exception it raised ("" if none)
Effect(st, out, refresh, exc) == [st |-> st, out |-> out, refresh |-> refresh, exc |-> exc]

(***************************************************************************)
(* Command executors (src/src/commands/command_executors.py)               *)
(***************************************************************************)

\* ProgrammingCommandExecutor._execute_python_command
_execute_python_command(key) ==
    IF key = "print statement" THEN <<Write("print()"), Hotkey("left")>>
    ELSE IF StartsWith(key, "create class") THEN
        LET class_name == string_to_camel_case(Strip(SliceFrom(key, Len("create class"))), FALSE).val
        IN  <<Write("class :"), Hotkey("enter"), Hotkey("tab"), Write("def __init__(self):"),
              Hotkey("up"), Hotkey("left")>>
            \o (IF Len(class_name) > 0 THEN <<Write(class_name)>> ELSE <<>>)
    ELSE IF StartsWith(key, "create method") THEN
        LET method_name == string_to_snake_case(Strip(SliceFrom(key, Len("create method"))))
        IN  <<Write("def (self):")>> \o Repeat(Hotkey("left"), 7)
            \o (IF Len(method_name) > 0 THEN <<Write(method_name)>> ELSE <<>>)
    ELSE IF StartsWith(key, "create function") THEN
        LET function_name == string_to_snake_case(Strip(SliceFrom(key, Len("create function"))))
        IN  <<Write("def :()")>> \o Repeat(Hotkey("left"), 3)
            \o (IF Len(function_name) > 0 THEN <<Write(function_name)>> ELSE <<>>)
    ELSE IF StartsWith(key, "new script") THEN
        <<Write("main():"), Hotkey("enter"), Hotkey("enter"),
          Write("if __name__ == \"__main__\":"), Hotkey("enter"), Write("main")>>
    ELSE IF key = "integer" THEN <<Write("int")>>
    ELSE IF key = "string" THEN <<Write("str")>>
    ELSE IF key = "double" THEN <<Write("float")>>
    ELSE <<Write(key)>>

\* ProgrammingCommandExecutor._create_java_method
_create_java_method(key, access_level) ==
    LET method_name == string_to_snake_case(
                           Strip(SliceFrom(key, Len("create " \o access_level \o " "))))
    IN  <<Write(access_level \o " void () {}")>> \o Repeat(Hotkey("left"), 5)
        \o (IF Len(method_name) > 0 THEN <<Write(method_name)>> ELSE <<>>)

\* ProgrammingCommandExecutor._execute_java_command
_execute_java_command(key) ==
    IF key = "print statement"
    THEN <<Write("System.out.println();"), Hotkey("left"), Hotkey("left")>>
    ELSE IF StartsWith(key, "create class") THEN
        LET class_name == string_to_camel_case(Strip(SliceFrom(key, Len("create class"))), FALSE).val
        IN  <<Write("public class  {"), Hotkey("enter"), Hotkey("up"), Hotkey("end"),
              Hotkey("left"), Hotkey("left")>>
            \o (IF Len(class_name) > 0 THEN <<Write(class_name)>> ELSE <<>>)
    ELSE IF \/ StartsWith(key, "create method") \/ StartsWith(key, "create public method")
            \/ StartsWith(key, "create function") \/ StartsWith(key, "create public function")
    THEN _create_java_method(key, "public")
    ELSE IF StartsWith(key, "create private method") \/ StartsWith(key, "create private function")
    THEN _create_java_method(key, "private")
    ELSE <<Write(key)>>

\* ProgrammingCommandExecutor.execute
ProgrammingCommandExecutor(command, st) ==
    IF st.programming_language = "python"
    THEN Effect(st, _execute_python_command(command.key), 0, "")
    ELSE IF st.programming_language = "java"
    THEN Effect(st, _execute_java_command(command.key), 0, "")
    ELSE Effect(st, <<>>, 0, "")

\* A keyboard command that never repeats its key
KeyboardRepeat_once(name, num_key) == 1

\* The repeat count KeyboardCommandExecutor.execute resolves from name and num_key
KeyboardRepeat(name, num_key) ==
    LET n == SliceFrom(name, Len(num_key))
    IN  IF Contains(n, ":")
        THEN (IF ParseInt(BeforeColon(n)).exc = "ValueError" THEN 1
              ELSE ParseInt(BeforeColon(n)).val)
        ELSE IF IsDigit(n) THEN ParseInt(n).val
        ELSE extract_number_from_string(n)

\* KeyboardCommandExecutor.execute
KeyboardCommandExecutor(command, st) ==
    Effect(st, Repeat(Hotkey(command.key), KeyboardRepeat(command.name, command.num_key)), 0, "")

\* InfoCommandExecutor.execute
InfoCommandExecutor(command, st) == Effect(st, <<Write(command.key)>>, 0, "")

\* GitCommandExecutor.execute
GitCommandExecutor(command, st) == Effect(st, <<Write(command.key)>>, 0, "")

simple_command_names ==
    {"view current directory", "list directory contents", "show network information",
     "show system information", "check active processes", "clear terminal screen"}

\* A terminal executor that types "change permissions" whatever the terminal OS
TerminalCommandExecutor_any_os(command, st) ==
    IF StartsWith(command.name, "change permissions") \/ StartsWith(command.name, "go to")
    THEN Effect(st, <<Write(command.key)>>, 0, "")
    ELSE IF command.name \in simple_command_names
    THEN Effect(st, <<Write(command.key), Hotkey("enter")>>, 0, "")
    ELSE Effect(st, <<>>, 0, "")

\* TerminalCommandExecutor.execute
TerminalCommandExecutor(command, st) ==
    IF \/ (StartsWith(command.name, "change permissions") /\ st.terminal_os = "linux")
       \/ StartsWith(command.name, "go to")
    THEN Effect(st, <<Write(command.key)>>, 0, "")
    ELSE IF command.name \in simple_command_names
    THEN Effect(st, <<Write(command.key), Hotkey("enter")>>, 0, "")
    ELSE Effect(st, <<>>, 0, "")

SelectionKeys ==
    << <<"select line", "home+shift+end">>, <<"select all", "ctrl+a">>,
       <<"delete line", "home+shift+end+backspace">>, <<"delete all", "ctrl+a+backspace">>,
       <<"copy", "ctrl+c">>, <<"paste", "ctrl+v">> >>

\* SelectionCommandExecutor.execute: an unknown name is only printed
SelectionCommandExecutor(command, st) ==
    IF \E i \in 1..Len(SelectionKeys) : SelectionKeys[i][1] = command.name
    THEN Effect(st, <<Hotkey(SelectionKeys[CHOOSE i \in 1..Len(SelectionKeys) :
                                 SelectionKeys[i][1] = command.name][2])>>, 0, "")
    ELSE Effect(st, <<>>, 0, "")

\* InteractiveCommandExecutor.execute: text_to_speech fetches the audio from a
\* service and raises when the service cannot be reached (tts = "fail")
InteractiveCommandExecutor(command, st, tts) ==
    IF tts = "fail" THEN Effect(st, <<>>, 0, "gTTSError")
    ELSE IF \/ StartsWith(command.name, "what time is it")
            \/ StartsWith(command.name, "what's the time")
    THEN Effect(st, <<Speak("it's <current_time>")>>, 0, "")
    ELSE IF StartsWith(command.name, "what's the date")
    THEN Effect(st, <<Speak("<week_day>, <month> <day>")>>, 0, "")
    ELSE Effect(st, <<Speak("no input")>>, 0, "")

Press(key) == [op |-> "press", arg |-> key]            \* gui.press(key)
Scroll(clicks) == [op |-> "scroll", arg |-> clicks]    \* gui.scroll(clicks)
FocusWindow(browser) == [op |-> "focus", arg |-> browser]   \* xdotool windowactivate

\* BrowserCommandExecutor.execute: command_mapping, in dictionary order
command_mapping ==
    << <<"browser right", <<Hotkey("ctrl+tab")>>>>,
       <<"browser left", <<Hotkey("ctrl+shift+tab")>>>>,
       <<"new chrome window", <<Hotkey("ctrl+n")>>>>,
       <<"new firefox window", <<Hotkey("ctrl+n")>>>>,
       <<"new incognito window", <<Hotkey("ctrl+n")>>>>,
       <<"focus chrome", <<FocusWindow("Chrome")>>>>,
       <<"focus firefox", <<FocusWindow("Firefox")>>>>,
       <<"go back", <<Hotkey("alt+left")>>>>,
       <<"go forward", <<Hotkey("alt+right")>>>>,
       <<"refresh page", <<Hotkey("ctrl+r")>>>>,
       <<"stop refreshing", <<Press("esc")>>>>,
       <<"scroll down", <<Scroll("-100")>>>>,
       <<"scroll up", <<Scroll("100")>>>>,
       <<"scroll to top", <<Hotkey("ctrl+home")>>>>,
       <<"scroll to bottom", <<Hotkey("ctrl+end")>>>>,
       <<"new tab", <<Hotkey("ctrl+t")>>>>,
       <<"close tab", <<Hotkey("ctrl+w")>>>>,
       <<"next tab", <<Hotkey("ctrl+tab")>>>>,
       <<"previous tab", <<Hotkey("ctrl+shift+tab")>>>>,
       <<"reopen closed tab", <<Hotkey("ctrl+shift+t")>>>>,
       <<"close window", <<Hotkey("alt+f4")>>>>,
       <<"minimize window", <<Hotkey("win+down")>>>>,
       <<"maximize window", <<Hotkey("win+up")>>>>,
       <<"open downloads", <<Hotkey("ctrl+j")>>>>,
       <<"open history", <<Hotkey("ctrl+h")>>>>,
       <<"open settings", <<Hotkey("alt+e"), Press("s")>>>>,
       <<"zoom in", <<Hotkey("ctrl++")>>>>,
       <<"zoom out", <<Hotkey("ctrl+-")>>>>,
       <<"reset zoom", <<Hotkey("ctrl+0")>>>>,
       <<"bookmark page", <<Hotkey("ctrl+d")>>>>,
       <<"print page", <<Hotkey("ctrl+p")>>>>,
       <<"save page", <<Hotkey("ctrl+s")>>>> >>

\* the first entry of command_mapping whose name the command's name starts with
\* 0 when there is none
MappingIndex(name) ==
    IF \E i \in 1..Len(command_mapping) : StartsWith(name, command_mapping[i][1])
    THEN CHOOSE i \in 1..Len(command_mapping) :
            /\ StartsWith(name, command_mapping[i][1])
            /\ \A j \in 1..(i - 1) : ~StartsWith(name, command_mapping[j][1])
    ELSE 0

\* BrowserCommandExecutor.execute
BrowserCommandExecutor(command, st) ==
    IF StartsWith(command.name, "browser")
    THEN IF Contains(command.name, "right") THEN Effect(st, <<Hotkey("Ctrl+Tab")>>, 0, "")
         ELSE IF Contains(command.name, "left") \/ Contains(command.name, "lyft")
         THEN Effect(st, <<Hotkey("Ctrl+Shift+Tab")>>, 0, "")
         ELSE LET parts == SplitOnSpace(command.name)
                  num_str == IF Len(parts) >= 2 THEN Strip(parts[2]) ELSE ""
              IN  IF Len(parts) < 2 THEN Effect(st, <<>>, 0, "")          \* IndexError, passed
                  ELSE IF IsDigit(num_str) THEN Effect(st, <<Hotkey("ctrl+" \o num_str)>>, 0, "")
                  ELSE IF numeric_str_to_int(num_str).exc # ""
                  THEN Effect(st, <<>>, 0, "")                             \* ValueError, passed
                  ELSE Effect(st, <<Hotkey("ctrl+" \o CharAt(Digits,
                                        numeric_str_to_int(num_str).val + 1))>>, 0, "")
    ELSE IF MappingIndex(command.name) # 0
    THEN Effect(st, command_mapping[MappingIndex(command.name)][2], 0, "")
    ELSE Effect(st, <<>>, 0, "")

(***************************************************************************)
(* AppState (src/src/state/app_state.py)                                   *)
(***************************************************************************)

\* AppState.__init__; commands holds no dictionary yet
AppState_init ==
    [mode |-> "dictation", spelling |-> FALSE, typing_active |-> TRUE, terminate |-> FALSE,
     commands |-> [keyboard_commands |-> None],
     switch_commands |-> <<>>, keyboard_commands |-> <<>>, info_commands |-> <<>>,
     selection_commands |-> <<>>,
     programming |-> TRUE, programming_language |-> "python", programming_commands |-> <<>>,
     terminal |-> TRUE, terminal_os |-> "linux", terminal_commands |-> <<>>,
     spelling_commands |-> None,
     punctuation |-> FALSE, capitalize |-> FALSE,
     git_commands |-> <<>>, interactive_commands |-> <<>>, browser_commands |-> <<>>]

\* The entries of commands["keyboard_commands"] load_commands appends
RECURSIVE KeyboardEntries(_)
KeyboardEntries(entries) ==
    IF Len(entries) = 0 THEN <<>>
    ELSE (IF entries[1].command_type = "keyboard"
          THEN <<CommandManager(entries[1].name, "KEYBOARD", entries[1].key, entries[1].num_key)>>
          ELSE <<>>) \o KeyboardEntries(Tail(entries))

\* AppState.load_programming_commands, without its print_status
load_programming_commands(st) ==
    IF ~st.programming THEN st
    ELSE [st EXCEPT !.programming_commands =
              _load_commands(st.commands[st.programming_language \o "_commands"], "PROGRAMMING")]

\* AppState.load_terminal_commands, without its print_status
load_terminal_commands(st) ==
    IF ~st.terminal THEN st
    ELSE [st EXCEPT !.terminal_commands =
              _load_commands(st.commands[st.terminal_os \o "_commands"], "TERMINAL")]

\* AppState.load_commands
load_commands(st, commands) ==
    LET s0 == [st EXCEPT !.commands = commands,
                         !.keyboard_commands =
                             st.keyboard_commands \o KeyboardEntries(commands.keyboard_commands)]
        s1 == [s0 EXCEPT !.info_commands = _load_commands(commands.info_commands, "INFO"),
                         !.selection_commands =
                             _load_commands(commands.selection_commands, "SELECTION"),
                         !.switch_commands = _load_commands(commands.switch_commands, "SWITCH")]
        s2 == load_terminal_commands(load_programming_commands(s1))
    IN  [s2 EXCEPT !.spelling_commands = _load_commands(commands.spelling_commands, "SPELLING"),
                   !.git_commands = _load_commands(commands.git_commands, "GIT"),
                   !.interactive_commands =
                       _load_commands(commands.interactive_commands, "INTERACTIVE"),
                   !.browser_commands = _load_commands(commands.browser_commands, "BROWSER")]

\* The status_message print_status composes
StatusMessage(st) ==
    "Typing: " \o (IF st.typing_active THEN "started" ELSE "stopped") \o "\n"
    \o "Mode: " \o st.mode \o "\n"
    \o (IF st.programming THEN "Programming: On  | " ELSE "Programming: Off | ")
    \o Capitalize(st.programming_language) \o "\n"
    \o (IF st.terminal THEN "Terminal: On | " \o st.terminal_os \o "\n" ELSE "Terminal: Off\n")
    \o (IF st.punctuation THEN "Punctuation: On  " ELSE "Punctuation: Off ")
    \o (IF st.capitalize THEN "| Caps: On" ELSE "| Caps: Off\n")

\* A switch_mode that only leaves dictation mode
switch_mode_one_way(st) ==
    IF st.mode = "dictation" THEN [st EXCEPT !.mode = "spelling"] ELSE st

\* AppState.switch_mode, without its print_status
switch_mode(st) ==
    IF st.mode = "dictation" THEN [st EXCEPT !.mode = "spelling"]
    ELSE IF st.mode = "spelling" THEN [st EXCEPT !.mode = "dictation"]
    ELSE st

\* AppState.switch_typing, without its print_status
switch_typing(st) == [st EXCEPT !.typing_active = ~st.typing_active]

set_programming(st, state) == [st EXCEPT !.programming = state]
set_programming_language(st, language) == [st EXCEPT !.programming_language = language]
set_terminal_os(st, os) == [st EXCEPT !.terminal_os = os]

\* AppState.switch_punctuation: toggles punctuation; turning it off turns capitalize off
switch_punctuation(st) ==
    IF st.punctuation THEN [st EXCEPT !.punctuation = FALSE, !.capitalize = FALSE]
    ELSE [st EXCEPT !.punctuation = TRUE]

\* AppState.switch_capitalization: toggles capitalize; turning it on turns punctuation on
switch_capitalization(st) ==
    IF st.capitalize THEN [st EXCEPT !.capitalize = FALSE]
    ELSE [st EXCEPT !.capitalize = TRUE, !.punctuation = TRUE]

\* The names of SwitchCommandExecutor.execute's command_map
command_map_names ==
    {"go to sleep", "wake up", "refresh texter", "programming on", "programming off",
     "terminal on", "terminal off", "switch mode", "switch punctuation", "switch caps",
     "switch cups", "switch to java", "switch to python", "switch to windows",
     "switch to linux"}

\* command_map[self.name](): the state the action leaves and the print_status calls it makes
SwitchAction(name, st) ==
    CASE name = "go to sleep" -> Effect([st EXCEPT !.typing_active = FALSE], <<>>, 0, "")
      [] name = "wake up" -> Effect([st EXCEPT !.typing_active = TRUE], <<>>, 0, "")
      [] name = "refresh texter" -> Effect(st, <<>>, 0, "SystemExit")
      [] name = "programming on" -> Effect([st EXCEPT !.programming = TRUE], <<>>, 0, "")
      [] name = "programming off" -> Effect([st EXCEPT !.programming = FALSE], <<>>, 0, "")
      [] name = "terminal on" -> Effect([st EXCEPT !.terminal = TRUE], <<>>, 0, "")
      [] name = "terminal off" -> Effect([st EXCEPT !.terminal = FALSE], <<>>, 0, "")
      [] name = "switch mode" -> Effect(switch_mode(st), <<>>, 1, "")
      [] name = "switch punctuation" -> Effect(switch_punctuation(st), <<>>, 0, "")
      [] name \in {"switch caps", "switch cups"} ->
             Effect(switch_capitalization(st), <<>>, 0, "")
      [] name = "switch to java" ->
             Effect(load_programming_commands(set_programming_language(st, "java")),
                    <<>>, IF st.programming THEN 1 ELSE 0, "")
      [] name = "switch to python" ->
             Effect(load_programming_commands(set_programming_language(st, "python")),
                    <<>>, IF st.programming THEN 1 ELSE 0, "")
      [] name = "switch to windows" ->
             Effect(load_terminal_commands(set_terminal_os(st, "windows")),
                    <<>>, IF st.terminal THEN 1 ELSE 0, "")
      [] name = "switch to linux" ->
             Effect(load_terminal_commands(set_terminal_os(st, "linux")),
                    <<>>, IF st.terminal THEN 1 ELSE 0, "")

\* app_state.update_status() after an action that returned
ThenUpdateStatus(e) == IF e.exc # "" THEN e ELSE Effect(e.st, e.out, e.refresh + 1, "")

\* SwitchCommandExecutor.execute: the action, then app_state.update_status()
SwitchCommandExecutor(command, st) ==
    IF command.name \in command_map_names
    THEN ThenUpdateStatus(SwitchAction(command.name, st))
    ELSE Effect(st, <<>>, 0, "")

\* CommandManager.execute: by command_type; a SPELLING command has no branch
CommandManager_execute(command, st, tts) ==
    CASE command.command_type = "KEYBOARD" -> KeyboardCommandExecutor(command, st)
      [] command.command_type = "SWITCH" -> SwitchCommandExecutor(command, st)
      [] command.command_type = "INFO" -> InfoCommandExecutor(command, st)
      [] command.command_type = "PROGRAMMING" -> ProgrammingCommandExecutor(command, st)
      [] command.command_type = "TERMINAL" -> TerminalCommandExecutor(command, st)
      [] command.command_type = "SELECTION" -> SelectionCommandExecutor(command, st)
      [] command.command_type = "GIT" -> GitCommandExecutor(command, st)
      [] command.command_type = "INTERACTIVE" -> InteractiveCommandExecutor(command, st, tts)
      [] command.command_type = "BROWSER" -> BrowserCommandExecutor(command, st)
      [] OTHER -> Effect(st, <<>>, 0, "")

(***************************************************************************)
(* Command dispatch (AppState.handle_command and its handlers)             *)
(***************************************************************************)

\* Index of the first command of the list whose name is a prefix of text, 0 when there is none:
\* "for command in ...: if text.startswith(command.name): ...; return True"
FirstMatch(commands, text) ==
    IF \E i \in 1..Len(commands) : StartsWith(text, commands[i].name)
    THEN CHOOSE i \in 1..Len(commands) :
             /\ StartsWith(text, commands[i].name)
             /\ \A j \in 1..(i - 1) : ~StartsWith(text, commands[j].name)
    ELSE 0

\* What one handler reports: whether it returned True, which command it ran, what running it did
NoMatch(st) == [matched |-> FALSE, index |-> 0, eff |-> Effect(st, <<>>, 0, "")]
Matched(i, eff) == [matched |-> TRUE, index |-> i, eff |-> eff]

_handle_switch_commands(st, text, tts) ==
    LET i == FirstMatch(st.switch_commands, text)
    IN  IF i = 0 THEN NoMatch(st)
        ELSE Matched(i, SwitchCommandExecutor(st.switch_commands[i], st))

\* A keyboard handler that forgets its "return True"
_handle_keyboard_command_unreported(st, text, tts) == NoMatch(st)

_handle_keyboard_command(st, text, tts) ==
    LET i == FirstMatch(st.keyboard_commands, text)
    IN  IF i = 0 THEN NoMatch(st)
        ELSE Matched(i, CommandManager_execute(st.keyboard_commands[i], st, tts))

_handle_git_command(st, text, tts) ==
    LET i == FirstMatch(st.git_commands, text)
    IN  IF i = 0 THEN NoMatch(st)
        ELSE Matched(i, GitCommandExecutor(st.git_commands[i], st))

\* A programming handler that does not look at the programming flag
_handle_programming_command_ungated(st, text, tts) ==
    LET i == FirstMatch(st.programming_commands, text)
    IN  IF i = 0 THEN NoMatch(st)
        ELSE Matched(i, ProgrammingCommandExecutor(st.programming_commands[i], st))

_handle_programming_command(st, text, tts) ==
    IF ~st.programming THEN NoMatch(st)
    ELSE LET i == FirstMatch(st.programming_commands, text)
         IN  IF i = 0 THEN NoMatch(st)
             ELSE Matched(i, ProgrammingCommandExecutor(st.programming_commands[i], st))

_handle_terminal_command(st, text, tts) ==
    IF ~st.terminal THEN NoMatch(st)
    ELSE LET i == FirstMatch(st.terminal_commands, text)
         IN  IF i = 0 THEN NoMatch(st)
             ELSE Matched(i, TerminalCommandExecutor(st.terminal_commands[i], st))

_handle_info_command(st, text, tts) ==
    LET i == FirstMatch(st.info_commands, text)
    IN  IF i = 0 THEN NoMatch(st)
        ELSE Matched(i, CommandManager_execute(st.info_commands[i], st, tts))

_handle_selection_command(st, text, tts) ==
    LET i == FirstMatch(st.selection_commands, text)
    IN  IF i = 0 THEN NoMatch(st)
        ELSE Matched(i, CommandManager_execute(st.selection_commands[i], st, tts))

\* iterating spelling_commands while it is still None raises TypeError
_handle_spelling_command(st, text, tts) ==
    IF st.spelling_commands = None
    THEN [matched |-> FALSE, index |-> 0, eff |-> Effect(st, <<>>, 0, "TypeError")]
    ELSE LET i == FirstMatch(st.spelling_commands, text)
         IN  IF i = 0 THEN NoMatch(st)
             ELSE Matched(i, CommandManager_execute(st.spelling_commands[i], st, tts))

_handle_interactive_command(st, text, tts) ==
    LET i == FirstMatch(st.interactive_commands, text)
    IN  IF i = 0 THEN NoMatch(st)
        ELSE Matched(i, InteractiveCommandExecutor(st.interactive_commands[i], st, tts))

_handle_browser_command(st, text, tts) ==
    LET i == FirstMatch(st.browser_commands, text)
    IN  IF i = 0 THEN NoMatch(st)
        ELSE Matched(i, BrowserCommandExecutor(st.browser_commands[i], st))

\* command_handlers with the keyboard handler tried before the switch handler
command_handlers_keyboard_first ==
    <<"keyboard", "switch", "programming", "terminal", "info", "selection", "spelling",
      "git", "interactive", "browser">>

\* The list command_handlers of handle_command, by the category each handler serves
command_handlers ==
    <<"switch", "keyboard", "programming", "terminal", "info", "selection", "spelling",
      "git", "interactive", "browser">>

\* handler(text) for the handler of one category
Handler(category, st, text, tts) ==
    CASE category = "switch" -> _handle_switch_commands(st, text, tts)
      [] category = "keyboard" -> _handle_keyboard_command(st, text, tts)
      [] category = "programming" -> _handle_programming_command(st, text, tts)
      [] category = "terminal" -> _handle_terminal_command(st, text, tts)
      [] category = "info" -> _handle_info_command(st, text, tts)
      [] category = "selection" -> _handle_selection_command(st, text, tts)
      [] category = "spelling" -> _handle_spelling_command(st, text, tts)
      [] category = "git" -> _handle_git_command(st, text, tts)
      [] category = "interactive" -> _handle_interactive_command(st, text, tts)
      [] category = "browser" -> _handle_browser_command(st, text, tts)

\* The outcome of handle_command: result is "True", "False" or "raised"; ran lists the
\* <<category, index>> of every command whose executor was invoked
Outcome(result, ran, eff) ==
    [result |-> result, ran |-> ran, st |-> eff.st, out |-> eff.out,
     refresh |-> eff.refresh, exc |-> eff.exc]

\* "for handler in command_handlers: if handler(text): return True" from the k-th handler
\* on; h is what the k-th handler reported
RECURSIVE TryHandlers(_, _, _, _, _)
RECURSIVE Tried(_, _, _, _, _, _)
Tried(h, handlers, k, st, text, tts) ==
    IF h.eff.exc # ""
    THEN Outcome("raised", IF h.matched THEN << <<handlers[k], h.index>> >> ELSE <<>>, h.eff)
    ELSE IF h.matched THEN Outcome("True", << <<handlers[k], h.index>> >>, h.eff)
    ELSE TryHandlers(handlers, k + 1, st, text, tts)

TryHandlers(handlers, k, st, text, tts) ==
    IF k > Len(handlers) THEN Outcome("False", <<>>, Effect(st, <<>>, 0, ""))
    ELSE Tried(Handler(handlers[k], st, text, tts), handlers, k, st, text, tts)

\* AppState.handle_command
handle_command(st, text, tts) == TryHandlers(command_handlers, 1, st, text, tts)

(***************************************************************************)
(* TextProcessor (src/src/commands/text_processor.py)                      *)
(***************************************************************************)

\* The labels the token-classification model may give a word
Labels == {"0", "."}

\* TextProcessor._prediction_to_text over words and their labels
RECURSIVE PredictionWords(_, _, _)
PredictionWords(words, labels, i) ==
    IF i > Len(words) THEN <<>>
    ELSE <<IF Contains(".,?-:", labels[i]) /\ (i = Len(words) \/ labels[i + 1] = "0")
           THEN words[i] \o labels[i]
           ELSE words[i]>> \o PredictionWords(words, labels, i + 1)

_prediction_to_text(words, labels) == Join(PredictionWords(words, labels, 1), " ")

\* prediction_to_text of the first evolution (src/src/TextProcessor.py): the word, then a
\* space for the label "0", or the mark and a space; result.strip() at the end
RECURSIVE PredictionText(_, _, _)
PredictionText(words, labels, i) ==
    IF i > Len(words) THEN ""
    ELSE words[i]
         \o (IF labels[i] = "0" THEN " " ELSE "")
         \o (IF Contains(".,?-:", labels[i]) THEN labels[i] \o " " ELSE "")
         \o PredictionText(words, labels, i + 1)

prediction_to_text(words, labels) == Strip(PredictionText(words, labels, 1))

\* TextProcessor.restore_punctuation; labels are what the model predicts for the words
restore_punctuation(text, labels) ==
    IF Len(Strip(text)) = 0 THEN "" ELSE _prediction_to_text(Split(text), labels)

\* re.split(r'([.!?])\s*', text): the pieces between delimiters and the delimiters themselves
RECURSIVE ReSplit(_, _)
ReSplit(s, piece) ==
    IF Len(s) = 0 THEN <<piece>>
    ELSE IF CharAt(s, 1) \in {".", "!", "?"}
         THEN <<piece, CharAt(s, 1)>> \o ReSplit(LStrip(SliceFrom(s, 1)), "")
         ELSE ReSplit(SliceFrom(s, 1), piece \o CharAt(s, 1))

\* [sentence.capitalize() for sentence in sentences if sentence.strip()]
RECURSIVE CapitalizePieces(_)
CapitalizePieces(pieces) ==
    IF Len(pieces) = 0 THEN <<>>
    ELSE (IF Len(Strip(pieces[1])) > 0 THEN <<Capitalize(pieces[1])>> ELSE <<>>)
         \o CapitalizePieces(Tail(pieces))

\* TextProcessor.capitalize_sentences
capitalize_sentences(text) == Join(CapitalizePieces(ReSplit(text, "")), "")

\* text.split(punctuation): the pieces between occurrences of the separator, empty ones kept
RECURSIVE SplitOn(_, _, _)
SplitOn(s, sep, piece) ==
    IF Len(s) = 0 THEN <<piece>>
    ELSE IF StartsWith(s, sep) THEN <<piece>> \o SplitOn(SliceFrom(s, Len(sep)), sep, "")
    ELSE SplitOn(SliceFrom(s, 1), sep, piece \o CharAt(s, 1))

\* One round of the loop of the first evolution's capitalize_sentences
CapitalizeAround(text, punctuation) ==
    IF Contains(text, punctuation)
    THEN Join(MapCapitalize(SplitOn(text, punctuation, "")), punctuation)
    ELSE text

\* TextProcessor.capitalize_sentences of the first evolution (src/src/TextProcessor.py)
legacy_capitalize_sentences(text) ==
    CapitalizeAround(CapitalizeAround(CapitalizeAround(text, "? "), ". "), "! ")

(***************************************************************************)
(* Mode handlers (src/src/utils/command_handler.py)                        *)
(***************************************************************************)

\* TexterUI.terminate_all_threads called on the interpreter thread: the exception it logs.
\* Before init_ui, self.app_state is None; afterwards the thread joins itself.
terminate_all_threads(ui_initialised) ==
    IF ~ui_initialised THEN "AttributeError" ELSE "RuntimeError"

\* What handling one utterance did: result is handle_command's ("none" when it was not called)
Handling(st, out, refresh, exc, result, ran, logged) ==
    [st |-> st, out |-> out, refresh |-> refresh, exc |-> exc, result |-> result,
     ran |-> ran, logged |-> logged]

\* Writing the value a conversion returned, or raising what it raised
WriteConverted(st, r) ==
    IF r.exc # "" THEN Handling(st, <<>>, 0, r.exc, "none", <<>>, {})
    ELSE Handling(st, <<Write(r.val)>>, 0, "", "none", <<>>, {})

\* The text handle_dictation_mode types for an utterance no command handled
DictatedText(st, text, labels) ==
    IF st.punctuation
    THEN (IF st.capitalize THEN capitalize_sentences(restore_punctuation(text, labels))
          ELSE restore_punctuation(text, labels))
    ELSE text

\* The same without the typing_active test
AfterCommand_ungated(hc, text, labels) ==
    IF hc.result = "False"
    THEN Handling(hc.st, <<Write(DictatedText(hc.st, text, labels))>>, 0, "",
                  hc.result, hc.ran, {})
    ELSE Handling(hc.st, hc.out, hc.refresh, hc.exc, hc.result, hc.ran, {})

\* "elif not app_state.handle_command(text): if app_state.typing_active: ... write(text)",
\* hc being what handle_command did
AfterCommand(hc, text, labels) ==
    IF hc.result = "False" /\ hc.st.typing_active
    THEN Handling(hc.st, <<Write(DictatedText(hc.st, text, labels))>>, 0, "",
                  hc.result, hc.ran, {})
    ELSE Handling(hc.st, hc.out, hc.refresh, hc.exc, hc.result, hc.ran, {})

\* handle_dictation_mode
handle_dictation_mode(st, text, tts, labels, ui_initialised) ==
    IF StartsWith(text, "camel case") \/ StartsWith(text, "camelcase")
    THEN WriteConverted(st, string_to_camel_case(SliceFrom(text, Len("camel case") + 1), FALSE))
    ELSE IF StartsWith(text, "small camel case")
    THEN WriteConverted(st, string_to_camel_case(SliceFrom(text, Len("small camel case") + 1),
                                                 TRUE))
    ELSE IF StartsWith(text, "snake case")
    THEN WriteConverted(st, Returned(string_to_snake_case(
                                Strip(SliceFrom(text, Len("snake case") + 1)))))
    ELSE IF text = "terminate texter"
    THEN Handling([st EXCEPT !.terminate = TRUE], <<>>, 0, "", "none", <<>>,
                  {terminate_all_threads(ui_initialised)})
    ELSE AfterCommand(handle_command(st, text, tts), text, labels)

\* handle_spelling_mode
\* A spelling handler that types what was said
handle_spelling_mode_typing(st, text) == <<Write(text)>>

handle_spelling_mode(st, text) ==
    LET spelling_output == convert_to_spelling(text, st.spelling_commands)
    IN  IF Len(spelling_output) > 0 THEN <<Write(spelling_output)>> ELSE <<>>

(***************************************************************************)
(* Status refresh                                                          *)
(***************************************************************************)

\* A callback scheduled with root.after(0, fn, arg) by the given thread
Callback(fn, arg, thread) == [fn |-> fn, arg |-> arg, thread |-> thread]

\* The tail of AppState.print_status with a window attached:
\* app_ui.update_status(status_message) and app_ui.update_commands() each schedule one callback
app_ui_update(status_message, thread) ==
    <<Callback("_update_status_ui", status_message, thread),
      Callback("_update_commands_ui", "", thread)>>

\* AppState.print_status run in one piece: the message is composed from st and scheduled
print_status(st, thread) == app_ui_update(StatusMessage(st), thread)

\* AppState.update_status: the status refresh the executors and the buttons ask for
update_status(st, thread) == print_status(st, thread)

\* The print_status calls of load_commands: load_programming_commands, load_terminal_commands
\* (each only when its category is on), load_spelling_commands, load_git_commands and
\* load_interactive_commands
load_commands_refresh(st) ==
    (IF st.programming THEN print_status(st, "ui") ELSE <<>>)
    \o (IF st.terminal THEN print_status(st, "ui") ELSE <<>>)
    \o print_status(st, "ui") \o print_status(st, "ui") \o print_status(st, "ui")

(***************************************************************************)
(* The legacy interpreter loop (src/src/SpeechRecognitionUtils.py)         *)
(***************************************************************************)

\* "switch punctuation" handled in the loop body
legacy_switch_punctuation(st) ==
    LET s1 == [st EXCEPT !.punctuation = ~st.punctuation]
    IN  IF ~s1.punctuation THEN [s1 EXCEPT !.capitalize = FALSE] ELSE s1

\* A "switch caps" that gives punctuation the old value of capitalize
legacy_switch_caps_copy(st) ==
    [st EXCEPT !.punctuation = st.capitalize, !.capitalize = ~st.capitalize]

\* "switch caps" handled in the loop body
legacy_switch_caps(st) ==
    [st EXCEPT !.punctuation = ~st.capitalize, !.capitalize = ~st.capitalize]

(***************************************************************************)
(* State                                                                   *)
(***************************************************************************)

VARIABLES
    env,            \* what is fixed for a run: evolution, Tcl build, what the user may say
    app_state,      \* the AppState object
    ui_pc,          \* where the main (UI) thread is
    interp_pc,      \* where the interpreter thread is
    text,           \* the utterance the interpreter thread is processing
    refresh,        \* print_status calls the running executor still has to make
    utter,          \* what processing the current utterance has done so far
    after_queue,    \* callbacks scheduled with root.after, in order
    widgets,        \* the text boxes of the window
    widget_calls,   \* which thread has touched which widget, and how
    logged,         \* the exceptions the interpreter thread has logged
    call            \* a single call of one operation on its own: arguments and result

vars == <<env, app_state, ui_pc, interp_pc, text, refresh, utter, after_queue, widgets,
          widget_calls, logged, call>>

\* The recogniser hands over a new utterance, and the user clicks Wake Up or Go to Sleep,
\* only while at most MaxQueue scheduled callbacks wait for the event loop
MaxQueue == 0

\* What the user does in a session: what is said, as recognised (before lower-casing and
\* replacements), and which of the Wake Up / Go to Sleep buttons are clicked. The Terminate
\* button can be clicked in every session.
Sessions ==
    << [says |-> {"switch punctuation", "switch caps", "hello alpha"}, clicks |-> {}],
       [says |-> {"go to sleep", "wake up", "go", "camel case foo bar", "hello alpha"},
        clicks |-> {}],
       [says |-> {"switch mode", "alpha", "hello alpha"}, clicks |-> {}],
       [says |-> {"what time is it", "Terminate Dexter", "hello alpha"},
        clicks |-> {"wake up", "go to sleep"}],
       [says |-> {"go to sleep"}, clicks |-> {"wake up"}] >>

\* What the user may say to the legacy loop
LegacyVocabulary == {"switch mode", "switch punctuation", "switch caps"}

NoUtterance ==
    [text |-> "", dictation |-> <<>>, spelling |-> <<>>, result |-> "none", ran |-> <<>>,
     typing |-> TRUE, typing_spelling |-> TRUE, mode |-> "none", exc |-> "",
     status_message |-> ""]

\* No operation is being called on its own
NoCall == [fn |-> "none"]

\* TexterUI.__init__: no widget exists yet
TexterUI_init ==
    [input_text_box |-> "<None>", status_text_box |-> "<None>", commands_text_box |-> "<None>"]

Init ==
    /\ env \in [evolution : {"final"}, tcl_threaded : BOOLEAN, session : 1..Len(Sessions)]
               \cup [evolution : {"legacy"}, tcl_threaded : {FALSE}, session : {1}]
    /\ app_state = AppState_init
    /\ ui_pc = "main"
    /\ interp_pc = "unstarted"
    /\ text = ""
    /\ refresh = 0
    /\ utter = NoUtterance
    /\ after_queue = <<>>
    /\ widgets = TexterUI_init
    /\ widget_calls = {}
    /\ logged = {}
    /\ call = NoCall

(***************************************************************************)
(* The main thread: start-up, window, buttons, event loop                  *)
(***************************************************************************)

Final == env.evolution = "final"

\* The interpreter thread has been started and has not ended: speech_thread.is_alive()
is_alive == interp_pc \notin {"unstarted", "exited"}

\* init_ui has created the widgets and entered mainloop
ui_initialised == ui_pc \in {"mainloop", "join", "destroyed"}

\* A widget access: which widget, from which thread's code, executed on which thread, and
\* whether it was a scheduled callback, a call marshalled by Tcl or a direct call
WidgetCall(widget, origin, thread, via) ==
    [widget |-> widget, origin |-> origin, thread |-> thread, via |-> via]

\* initialize_application: AppState(app), load_commands(get_commands(...))
initialize_application ==
    /\ Final /\ ui_pc = "main"
    /\ app_state' = load_commands(app_state, Config)
    /\ after_queue' = after_queue \o load_commands_refresh(app_state')
    /\ ui_pc' = "loaded"
    /\ UNCHANGED <<call, env, interp_pc, text, refresh, utter, widgets, widget_calls, logged>>

\* start_speech_interpreter: the thread is created, stored in app.speech_thread and started
start_speech_interpreter ==
    /\ Final /\ ui_pc = "loaded"
    /\ ui_pc' = "started"
    /\ interp_pc' = "run"
    /\ UNCHANGED <<call, env, app_state, text, refresh, utter, after_queue, widgets, widget_calls,
                   logged>>

\* TexterUI.init_ui up to root.mainloop(): the widgets are created; configure_status_section
\* calls print_status, which asks app_state for a status refresh
init_ui ==
    /\ Final /\ ui_pc = "started"
    /\ widgets' = [input_text_box |-> "", status_text_box |-> "", commands_text_box |-> ""]
    /\ after_queue' = after_queue \o update_status(app_state, "ui")
    /\ ui_pc' = "mainloop"
    /\ UNCHANGED <<call, env, app_state, interp_pc, text, refresh, utter, widget_calls, logged>>

\* TexterUI.on_wake_up_button_click
on_wake_up_button_click ==
    /\ Final /\ ui_pc = "mainloop" /\ Len(after_queue) <= MaxQueue
    /\ "wake up" \in Sessions[env.session].clicks
    /\ app_state' = [app_state EXCEPT !.typing_active = TRUE]
    /\ after_queue' = after_queue \o update_status(app_state', "ui")
    /\ UNCHANGED <<call, env, ui_pc, interp_pc, text, refresh, utter, widgets, widget_calls, logged>>

\* TexterUI.on_go_to_sleep_button_click
on_go_to_sleep_button_click ==
    /\ Final /\ ui_pc = "mainloop" /\ Len(after_queue) <= MaxQueue
    /\ "go to sleep" \in Sessions[env.session].clicks
    /\ app_state' = [app_state EXCEPT !.typing_active = FALSE]
    /\ after_queue' = after_queue \o update_status(app_state', "ui")
    /\ UNCHANGED <<call, env, ui_pc, interp_pc, text, refresh, utter, widgets, widget_calls, logged>>

\* TexterUI.on_terminate_button_click up to the join: with no live thread it goes straight
\* to root.destroy()
on_terminate_button_click ==
    /\ Final /\ ui_pc = "mainloop"
    /\ app_state' = [app_state EXCEPT !.terminate = TRUE]
    /\ ui_pc' = IF is_alive THEN "join" ELSE "destroyed"
    /\ UNCHANGED <<call, env, interp_pc, text, refresh, utter, after_queue, widgets, widget_calls,
                   logged>>

\* speech_thread.join() returns once the thread has ended; then root.destroy()
join_returns ==
    /\ Final /\ ui_pc = "join" /\ ~is_alive
    /\ ui_pc' = "destroyed"
    /\ UNCHANGED <<call, env, app_state, interp_pc, text, refresh, utter, after_queue, widgets,
                   widget_calls, logged>>

\* The event loop runs the oldest scheduled callback: TexterUI._update_status_ui
_update_status_ui ==
    /\ Final /\ ui_pc = "mainloop" /\ Len(after_queue) > 0
    /\ Head(after_queue).fn = "_update_status_ui"
    /\ widgets' = [widgets EXCEPT !.status_text_box = Head(after_queue).arg]
    /\ widget_calls' = widget_calls \cup {WidgetCall("status_text_box", Head(after_queue).thread, "ui", "after")}
    /\ after_queue' = Tail(after_queue)
    /\ UNCHANGED <<call, env, app_state, ui_pc, interp_pc, text, refresh, utter, logged>>

\* The event loop runs the oldest scheduled callback: TexterUI._update_commands_ui
_update_commands_ui ==
    /\ Final /\ ui_pc = "mainloop" /\ Len(after_queue) > 0
    /\ Head(after_queue).fn = "_update_commands_ui"
    /\ widgets' = [widgets EXCEPT !.commands_text_box = "commands"]
    /\ widget_calls' = widget_calls \cup {WidgetCall("commands_text_box", Head(after_queue).thread, "ui", "after")}
    /\ after_queue' = Tail(after_queue)
    /\ UNCHANGED <<call, env, app_state, ui_pc, interp_pc, text, refresh, utter, logged>>

(***************************************************************************)
(* The interpreter thread (src/src/utils/live_speech_interpreter.py)       *)
(***************************************************************************)

\* A Tk call made by the interpreter thread can complete: a threaded Tcl hands the call to
\* the event loop of the main thread and blocks the caller until that loop has run it; an
\* unthreaded Tcl runs it in the calling thread
TkCallCompletes == ~env.tcl_threaded \/ ui_pc = "mainloop"

\* The thread that executes a Tk call made by the interpreter thread, and how it got there
TkThread == IF env.tcl_threaded THEN "ui" ELSE "interpreter"
TkVia == IF env.tcl_threaded THEN "marshalled" ELSE "direct"

\* run_live_speech_interpreter: "while not app_state.terminate: try: live_speech_interpreter"
\* up to the loop of live_speech_interpreter; noalsaerr raises OSError without libasound
run_live_speech_interpreter ==
    /\ Final /\ interp_pc = "run"
    /\ IF app_state.terminate THEN interp_pc' = "exited"
       ELSE interp_pc' \in {"loop", "run_except"}
    /\ UNCHANGED <<call, env, app_state, ui_pc, text, refresh, utter, after_queue, widgets,
                   widget_calls, logged>>

\* run_live_speech_interpreter: "except Exception: log; time.sleep(1)"
run_except ==
    /\ Final /\ interp_pc = "run_except"
    /\ logged' = logged \cup {"OSError"}
    /\ interp_pc' = "run"
    /\ UNCHANGED <<call, env, app_state, ui_pc, text, refresh, utter, after_queue, widgets,
                   widget_calls>>

\* live_speech_interpreter: "while not app_state.terminate"
live_speech_interpreter ==
    /\ Final /\ interp_pc = "loop"
    /\ interp_pc' = IF app_state.terminate THEN "run" ELSE "listen"
    /\ UNCHANGED <<call, env, app_state, ui_pc, text, refresh, utter, after_queue, widgets,
                   widget_calls, logged>>

\* recognize_speech returns None: nothing heard before the timeout, or not understood
recognize_nothing ==
    /\ Final /\ interp_pc = "listen"
    /\ interp_pc' = "loop"
    /\ text' = ""
    /\ utter' = NoUtterance
    /\ UNCHANGED <<call, env, app_state, ui_pc, refresh, after_queue, widgets, widget_calls, logged>>

\* recognize_speech returns an utterance; text.lower(), process_special_cases(text)
recognize_speech ==
    /\ Final /\ interp_pc = "listen"
    /\ ui_pc = "mainloop" => Len(after_queue) <= MaxQueue
    /\ \E heard \in Sessions[env.session].says :
          /\ text' = process_special_cases(Lower(heard))
          /\ utter' = [NoUtterance EXCEPT !.text = text']
    /\ interp_pc' = "append"
    /\ UNCHANGED <<call, env, app_state, ui_pc, refresh, after_queue, widgets, widget_calls, logged>>

\* texter_ui.append_text("You said:~text~"): input_text_box is None until init_ui; afterwards
\* config, insert, see, config on the widget
append_text ==
    /\ Final /\ interp_pc = "append"
    /\ IF ~ui_initialised
       THEN /\ utter' = [utter EXCEPT !.exc = "AttributeError"]
            /\ interp_pc' = "except"
            /\ UNCHANGED <<widgets, widget_calls>>
       ELSE /\ TkCallCompletes
            /\ widgets' = [widgets EXCEPT !.input_text_box = "You said:~" \o text \o "~\n"]
            /\ widget_calls' = widget_calls
                   \cup {WidgetCall("input_text_box", "interpreter", TkThread, TkVia)}
            /\ interp_pc' = "dictation"
            /\ UNCHANGED utter
    /\ UNCHANGED <<call, env, app_state, ui_pc, text, refresh, after_queue, logged>>

\* How text_to_speech can end, where the utterance can reach it
TtsOutcomes(st, utterance) ==
    IF FirstMatch(st.interactive_commands, utterance) > 0 THEN {"ok", "fail"} ELSE {"ok"}

\* What the model can predict for the words, where the utterance can reach the model
Predictions(st, utterance) ==
    IF st.punctuation THEN [1..Len(Split(utterance)) -> Labels]
    ELSE {[i \in 1..Len(Split(utterance)) |-> "0"]}

\* What the thread's state is after handle_dictation_mode did h
Dictated(h) ==
    /\ app_state' = h.st
    /\ refresh' = h.refresh
    /\ logged' = logged \cup h.logged
    /\ utter' = [utter EXCEPT !.dictation = h.out, !.ran = h.ran, !.exc = h.exc,
                              !.typing = app_state.typing_active,
                              !.result = IF h.refresh > 0 THEN "pending" ELSE h.result]
    /\ interp_pc' = IF h.exc = "SystemExit" THEN "exited"
                    ELSE IF h.exc # "" THEN "except"
                    ELSE IF h.refresh > 0 THEN "print_status"
                    ELSE "spelling"

\* handle_dictation_mode(app_state, texter_ui, text), up to the first status refresh the
\* executor asks for
dictation ==
    /\ Final /\ interp_pc = "dictation"
    /\ \E tts \in TtsOutcomes(app_state, text), labels \in Predictions(app_state, text) :
          Dictated(handle_dictation_mode(app_state, text, tts, labels, ui_initialised))
    /\ UNCHANGED <<call, env, ui_pc, text, after_queue, widgets, widget_calls>>

\* print_status inside the executor, up to "if self.app_ui:": status_message is composed
\* from the fields of AppState as they are at this moment; nothing keeps the main thread
\* from running a button handler before the message is handed to the window
AppState_print_status ==
    /\ Final /\ interp_pc = "print_status"
    /\ utter' = [utter EXCEPT !.status_message = StatusMessage(app_state)]
    /\ interp_pc' = "update_status"
    /\ UNCHANGED <<call, env, app_state, ui_pc, text, refresh, after_queue, widgets, widget_calls,
                   logged>>

\* The rest of print_status: app_ui.update_status(status_message) and
\* app_ui.update_commands(), two root.after calls; after the last print_status the executor
\* returns and handle_command returns True
TexterUI_update_status ==
    /\ Final /\ interp_pc = "update_status"
    /\ TkCallCompletes
    /\ after_queue' = after_queue \o app_ui_update(utter.status_message, "interpreter")
    /\ refresh' = refresh - 1
    /\ interp_pc' = IF refresh' > 0 THEN "print_status" ELSE "spelling"
    /\ utter' = IF refresh' > 0 THEN utter ELSE [utter EXCEPT !.result = "True"]
    /\ UNCHANGED <<call, env, app_state, ui_pc, text, widgets, widget_calls, logged>>

\* handle_spelling_mode(app_state, text)
spelling ==
    /\ Final /\ interp_pc = "spelling"
    /\ utter' = [utter EXCEPT !.spelling = handle_spelling_mode(app_state, text),
                              !.mode = app_state.mode,
                              !.typing_spelling = app_state.typing_active]
    /\ interp_pc' = "loop"
    /\ UNCHANGED <<call, env, app_state, ui_pc, text, refresh, after_queue, widgets, widget_calls,
                   logged>>

\* live_speech_interpreter: "except Exception: log; time.sleep(5)"
loop_except ==
    /\ Final /\ interp_pc = "except"
    /\ logged' = logged \cup {utter.exc}
    /\ interp_pc' = "loop"
    /\ UNCHANGED <<call, env, app_state, ui_pc, text, refresh, utter, after_queue, widgets,
                   widget_calls>>

\* One iteration of the legacy loop for the utterances it handles itself
legacy_live_speech_interpreter ==
    /\ env.evolution = "legacy" /\ ~app_state.terminate
    /\ \E heard \in LegacyVocabulary :
          /\ text' = heard
          /\ app_state' = CASE heard = "switch mode" -> switch_mode(app_state)
                            [] heard = "switch punctuation" -> legacy_switch_punctuation(app_state)
                            [] heard = "switch caps" -> legacy_switch_caps(app_state)
    /\ UNCHANGED <<call, env, ui_pc, interp_pc, refresh, utter, after_queue, widgets, widget_calls,
                   logged>>

Next ==
    \/ initialize_application \/ start_speech_interpreter \/ init_ui
    \/ on_wake_up_button_click \/ on_go_to_sleep_button_click \/ on_terminate_button_click
    \/ join_returns \/ _update_status_ui \/ _update_commands_ui
    \/ run_live_speech_interpreter \/ run_except \/ live_speech_interpreter
    \/ recognize_nothing \/ recognize_speech \/ append_text \/ dictation
    \/ AppState_print_status \/ TexterUI_update_status \/ spelling \/ loop_except
    \/ legacy_live_speech_interpreter

Spec == Init /\ [][Next]_vars

\* The steps of the interpreter thread
InterpreterNext ==
    \/ run_live_speech_interpreter \/ run_except \/ live_speech_interpreter
    \/ recognize_nothing \/ recognize_speech \/ append_text \/ dictation
    \/ AppState_print_status \/ TexterUI_update_status \/ spelling \/ loop_except

\* The steps the main thread takes without the user: start-up, the event loop running
\* scheduled callbacks, the join returning
MainNext ==
    \/ initialize_application \/ start_speech_interpreter \/ init_ui
    \/ join_returns \/ _update_status_ui \/ _update_commands_ui

(***************************************************************************)
(* Operations called on their own: one call, its arguments drawn from a    *)
(* bounded set, and what it returns                                        *)
(***************************************************************************)

\* The longest run of calls tried
MaxCalls == 3

\* The variables of the running program, which a call made on its own leaves alone
program_vars == <<env, app_state, ui_pc, interp_pc, text, refresh, utter, after_queue,
                  widgets, widget_calls, logged>>

\* recognize_speech (src/src/utils/speech_recognition.py) returns a transcript or None, or
\* lets an exception out
Transcript(t) == [exc |-> "", none |-> FALSE, text |-> t]
NoTranscript == [exc |-> "", none |-> TRUE, text |-> ""]
Propagated(e) == [exc |-> e, none |-> FALSE, text |-> ""]

\* recognize_speech with "except sr.UnknownValueError" taken away
recognize_speech_uncaught(microphone, listen, google, transcript) ==
    IF microphone # "source" THEN Propagated(microphone)
    ELSE IF listen = "UnknownValueError" \/ (listen = "audio" /\ google = "UnknownValueError")
         THEN Propagated("UnknownValueError")
    ELSE IF listen # "audio" \/ google # "transcript" THEN NoTranscript
    ELSE Transcript(Lower(transcript))

\* recognize_speech(recognizer, timeout): "with sr.Microphone() as source:" is entered
\* before the try; every except clause of the try ends in "return None"
recognize_speech_call(microphone, listen, google, transcript) ==
    IF microphone # "source" THEN Propagated(microphone)
    ELSE IF listen # "audio" THEN NoTranscript
    ELSE IF google # "transcript" THEN NoTranscript
    ELSE Transcript(Lower(transcript))

\* How opening sr.Microphone(), recognizer.listen and recognizer.recognize_google can end,
\* and what the service transcribes
RecognizeCalls ==
    [fn : {"recognize_speech"}, done : {FALSE}, microphone : {"source", "OSError"},
     listen : {"audio", "WaitTimeoutError", "UnknownValueError", "Exception"},
     google : {"transcript", "UnknownValueError", "RequestError", "Exception"},
     transcript : {"Hello World", "go to sleep", "Terminate Dexter"},
     result : {NoTranscript}, next : {"listen"}]

\* The attempt c after recognize_speech gave r, and what live_speech_interpreter (lines
\* 52-53 and 62) does next: the except clause, the next attempt, or append_text
Attempted(c, r) ==
    [c EXCEPT !.done = TRUE, !.result = r,
              !.next = IF r.exc # "" THEN "except"
                       ELSE IF r.none \/ r.text = "" THEN "loop" ELSE "append"]

\* One attempt of the loop: text = recognize_speech(recognizer)
call_recognize_speech ==
    /\ call.fn = "recognize_speech" /\ ~call.done
    /\ call' = Attempted(call, recognize_speech_call(call.microphone, call.listen,
                                                       call.google, call.transcript))
    /\ UNCHANGED program_vars

\* Utterances handled one after the other by an AppState that has loaded its commands
SwitchCalls ==
    [fn : {"handle_command"}, st : {load_commands(AppState_init, Config)}, said : {<<>>},
     result : {"none"}, ran : {<<>>}, out : {<<>>}]

\* app_state.handle_command(text) for one of the programming switch commands
\* What the caller of handle_command(name) sees: the state, the value returned, the
\* executor that ran and the keystrokes it sent
Handled(c, name, hc) ==
    [c EXCEPT !.st = hc.st, !.said = Append(@, name), !.result = hc.result, !.ran = hc.ran,
              !.out = hc.out]

call_handle_command ==
    /\ call.fn = "handle_command" /\ Len(call.said) < MaxCalls
    /\ \E name \in {"programming on", "programming off", "switch to java", "switch to python",
                      "terminal on", "terminal off", "print statement",
                      "list directory contents"} :
          call' = Handled(call, name, handle_command(call.st, name, "ok"))
    /\ UNCHANGED program_vars

\* The load_* methods load_commands calls one after the other: each reads
\* self.commands[key] and assigns the attribute; the first absent key raises KeyError and
\* leaves the later attributes as they were
RECURSIVE LoadEach(_, _)
LoadEach(st, loads) ==
    IF Len(loads) = 0 THEN [st |-> st, exc |-> ""]
    ELSE IF loads[1].key \notin DOMAIN st.commands THEN [st |-> st, exc |-> "KeyError"]
    ELSE LoadEach([st EXCEPT ![loads[1].attribute] =
                       _load_commands(st.commands[loads[1].key], loads[1].command_type)],
                  Tail(loads))

\* AppState.load_commands(commands) for a dictionary that need not hold every array, with
\* the exception it lets out
load_commands_call(st, commands) ==
    LET Load(key, attribute, command_type) ==
            <<[key |-> key, attribute |-> attribute, command_type |-> command_type]>>
        s0 == [st EXCEPT !.commands = commands]
        entries == commands.keyboard_commands
        bad == {i \in 1..Len(entries) : "command_type" \notin DOMAIN entries[i]}
        read == IF bad = {} THEN entries
                ELSE SubSeq(entries, 1, (CHOOSE i \in bad : \A j \in bad : i <= j) - 1)
        s1 == [s0 EXCEPT !.keyboard_commands = @ \o KeyboardEntries(read)]
    IN  IF "keyboard_commands" \notin DOMAIN commands THEN [st |-> s0, exc |-> "KeyError"]
        ELSE IF bad # {} THEN [st |-> s1, exc |-> "KeyError"]
        ELSE LoadEach(s1,
                 Load("info_commands", "info_commands", "INFO")
                 \o Load("selection_commands", "selection_commands", "SELECTION")
                 \o Load("switch_commands", "switch_commands", "SWITCH")
                 \o (IF st.programming
                     THEN Load(st.programming_language \o "_commands", "programming_commands",
                               "PROGRAMMING")
                     ELSE <<>>)
                 \o (IF st.terminal
                     THEN Load(st.terminal_os \o "_commands", "terminal_commands", "TERMINAL")
                     ELSE <<>>)
                 \o Load("spelling_commands", "spelling_commands", "SPELLING")
                 \o Load("git_commands", "git_commands", "GIT")
                 \o Load("interactive_commands", "interactive_commands", "INTERACTIVE")
                 \o Load("browser_commands", "browser_commands", "BROWSER"))

\* The configuration dictionaries tried: the whole one, the one with one array absent, and
\* the one whose second keyboard entry has no command_type
LoadCalls ==
    [fn : {"load_commands"}, done : {FALSE}, result : {[st |-> AppState_init, exc |-> ""]},
     commands : {Config}
        \cup {[k \in DOMAIN Config \ {absent} |-> Config[k]] : absent \in DOMAIN Config}
        \cup {[Config EXCEPT !.keyboard_commands =
                   <<Config.keyboard_commands[1], [name |-> "stop", num_key |-> "stop"]>>]}]

\* app_state.load_commands(commands) on a new AppState
call_load_commands ==
    /\ call.fn = "load_commands" /\ ~call.done
    /\ call' = [call EXCEPT !.done = TRUE,
                            !.result = load_commands_call(AppState_init, call.commands)]
    /\ UNCHANGED program_vars

\* "with noalsaerr(): body" (src/src/utils/error_handler.py): the handlers given to
\* snd_lib_error_set_handler, in order, and the exception that leaves the with statement.
\* The generator has no try around its yield: an exception of the body is thrown in at the
\* yield and leaves the generator before line 62
noalsaerr(library, body) ==
    IF library # "loaded" THEN [handlers |-> <<>>, exc |-> library]
    ELSE IF body # "returns" THEN [handlers |-> <<"c_error_handler">>, exc |-> body]
    ELSE [handlers |-> <<"c_error_handler", "None">>, exc |-> ""]

\* How cdll.LoadLibrary('libasound.so') and the body of the with statement can end
NoalsaerrCalls ==
    [fn : {"noalsaerr"}, done : {FALSE}, library : {"loaded", "OSError"},
     body : {"returns", "Exception", "KeyboardInterrupt"},
     result : {[handlers |-> <<>>, exc |-> ""]}]

\* with noalsaerr(): body
call_noalsaerr ==
    /\ call.fn = "noalsaerr" /\ ~call.done
    /\ call' = [call EXCEPT !.done = TRUE, !.result = noalsaerr(call.library, call.body)]
    /\ UNCHANGED program_vars

\* The most files a directory holds
MaxFiles == 2

\* A loop over the files that stops at the first one that cannot be read or parsed
RECURSIVE ReadFiles_until_bad(_, _)
ReadFiles_until_bad(files, commands) ==
    IF Len(files) = 0 \/ files[1].kind # "object" THEN [commands |-> commands, exc |-> ""]
    ELSE ReadFiles_until_bad(Tail(files),
                   [k \in DOMAIN commands \cup DOMAIN files[1].content |->
                       IF k \in DOMAIN files[1].content THEN files[1].content[k]
                       ELSE commands[k]])

\* get_commands, lines 76-85: open and json.load each file in turn; FileNotFoundError and
\* json.JSONDecodeError are logged and the file is skipped; commands.update(file_commands)
\* raises TypeError when the file holds JSON that is not an object
RECURSIVE ReadFiles(_, _)
ReadFiles(files, commands) ==
    IF Len(files) = 0 THEN [commands |-> commands, exc |-> ""]
    ELSE IF files[1].kind \in {"vanished", "invalid json"} THEN ReadFiles(Tail(files), commands)
    ELSE IF files[1].kind = "null" THEN [commands |-> commands, exc |-> "TypeError"]
    ELSE ReadFiles(Tail(files),
                   [k \in DOMAIN commands \cup DOMAIN files[1].content |->
                       IF k \in DOMAIN files[1].content THEN files[1].content[k]
                       ELSE commands[k]])

\* get_commands(directory) (src/src/utils/command_utils.py), with the exception it lets out
get_commands(directory) ==
    IF ~directory.isdir THEN [commands |-> <<>>, exc |-> ""]
    ELSE ReadFiles(directory.files, <<>>)

\* The directories tried: a path that is no directory, and directories whose *commands.json
\* files, in glob order, are objects, invalid JSON, files that vanish before they are
\* opened, or the JSON value null
GetCommandsCalls ==
    LET Files == {[kind |-> "object", content |-> [command1 |-> "action1"]],
                  [kind |-> "object", content |-> [command1 |-> "other", command2 |-> "action2"]],
                  [kind |-> "invalid json", content |-> <<>>],
                  [kind |-> "vanished", content |-> <<>>],
                  [kind |-> "null", content |-> <<>>]}
        Directories == {[isdir |-> FALSE, files |-> <<>>]}
                       \cup [isdir : {TRUE}, files : UNION {[1..n -> Files] : n \in 0..MaxFiles}]
    IN  [fn : {"get_commands"}, done : {FALSE}, directory : Directories,
         result : {[commands |-> <<>>, exc |-> ""]}]

\* commands = get_commands(directory)
call_get_commands ==
    /\ call.fn = "get_commands" /\ ~call.done
    /\ call' = [call EXCEPT !.done = TRUE, !.result = get_commands(call.directory)]
    /\ UNCHANGED program_vars

\* KeyboardCommandExecutor(key, name, num_key).execute() for the names a configuration
\* gives a repeatable key: no suffix, a digit suffix, a spoken number, a time code, a
\* word that is no number, with and without a space between num_key and the suffix
KeyboardCalls ==
    [fn : {"KeyboardCommandExecutor"}, done : {FALSE}, key : {"tab"},
     name : {"tab", "tab ", "tab 3", "tab 12", "tab two", "tab two five", "tab 1 2",
             "tab 2:30", "tab x:30", "tab twice"},
     num_key : {"tab", "tab "},
     out : {<<>>}, exc : {""}]

call_KeyboardCommandExecutor ==
    /\ call.fn = "KeyboardCommandExecutor" /\ ~call.done
    /\ LET e == KeyboardCommandExecutor([key |-> call.key, name |-> call.name,
                                         num_key |-> call.num_key], AppState_init)
       IN  call' = [call EXCEPT !.done = TRUE, !.out = e.out, !.exc = e.exc]
    /\ UNCHANGED program_vars

\* TerminalCommandExecutor(key, name).execute(app_state) under either terminal OS
TerminalCalls ==
    [fn : {"TerminalCommandExecutor"}, done : {FALSE}, key : {"k"},
     name : {"change permissions", "change permissions recursively", "view current directory",
             "clear terminal screen", "go to", "go to home", "make directory", "ls"},
     terminal_os : {"linux", "windows"},
     out : {<<>>}, exc : {""}]

call_TerminalCommandExecutor ==
    /\ call.fn = "TerminalCommandExecutor" /\ ~call.done
    /\ LET e == TerminalCommandExecutor([key |-> call.key, name |-> call.name],
                                        set_terminal_os(AppState_init, call.terminal_os))
       IN  call' = [call EXCEPT !.done = TRUE, !.out = e.out, !.exc = e.exc]
    /\ UNCHANGED program_vars

\* TextProcessor.capitalize_sentences(text) in either evolution of the class
CapitalizeCalls ==
    [fn : {"capitalize_sentences"}, done : {FALSE}, evolution : {"final", "legacy"},
     text : {"", "hello world", "hello world.", "hello world. this is a test.",
             "hello World", "is it? yes! ok.", "wait... what",
             "hello world. this is a test! can it work? yes."},
     result : {""}]

call_capitalize_sentences ==
    /\ call.fn = "capitalize_sentences" /\ ~call.done
    /\ call' = [call EXCEPT !.done = TRUE,
                            !.result = IF call.evolution = "legacy"
                                       THEN legacy_capitalize_sentences(call.text)
                                       ELSE capitalize_sentences(call.text)]
    /\ UNCHANGED program_vars

\* convert_to_spelling(text, spelling_commands) in either evolution, for catalogs with and
\* without a repeated name
SpellingCalls ==
    [fn : {"convert_to_spelling"}, done : {FALSE}, evolution : {"final", "legacy"},
     text : {"", "beta", "alpha beta", "alpha gamma", "gamma", "beta  alpha alpha"},
     spelling_commands :
        {<<>>,
         <<[name |-> "alpha", key |-> "a"], [name |-> "beta", key |-> "b"]>>,
         <<[name |-> "alpha", key |-> "a"], [name |-> "beta", key |-> "b"],
           [name |-> "alpha", key |-> "x"]>>},
     result : {""}]

call_convert_to_spelling ==
    /\ call.fn = "convert_to_spelling" /\ ~call.done
    /\ call' = [call EXCEPT !.done = TRUE,
                            !.result = IF call.evolution = "legacy"
                                       THEN legacy_convert_to_spelling(call.text, call.spelling_commands)
                                       ELSE convert_to_spelling(call.text, call.spelling_commands)]
    /\ UNCHANGED program_vars

\* load_programming_commands (resp. load_terminal_commands) called on its own, with the
\* exception it lets out: "if not self.programming: return", then
\* self.commands[language + "_commands"], a TypeError while commands is None and a KeyError
\* for a dictionary without that array
load_sub_catalog(st, fn) ==
    LET programming == fn = "load_programming_commands"
        key == (IF programming THEN st.programming_language ELSE st.terminal_os) \o "_commands"
    IN  IF ~(IF programming THEN st.programming ELSE st.terminal) THEN [st |-> st, exc |-> ""]
        ELSE IF st.commands = AppState_init.commands THEN [st |-> st, exc |-> "TypeError"]
        ELSE LoadEach(st, <<[key |-> key,
                             attribute |-> IF programming THEN "programming_commands"
                                           ELSE "terminal_commands",
                             command_type |-> IF programming THEN "PROGRAMMING" ELSE "TERMINAL"]>>)

\* The states the two loaders are called in: before and after load_commands, with the
\* category on and off, with either language and OS selected
SubCatalogCalls ==
    LET loaded == load_commands(AppState_init, Config)
    IN  [fn : {"load_programming_commands", "load_terminal_commands"}, done : {FALSE},
         st : {AppState_init,
               [AppState_init EXCEPT !.programming = FALSE, !.terminal = FALSE],
               loaded,
               [loaded EXCEPT !.programming = FALSE, !.terminal = FALSE],
               set_terminal_os(set_programming_language(loaded, "java"), "windows")},
         result : {[st |-> AppState_init, exc |-> ""]}]

call_load_sub_catalog ==
    /\ call.fn \in {"load_programming_commands", "load_terminal_commands"} /\ ~call.done
    /\ call' = [call EXCEPT !.done = TRUE, !.result = load_sub_catalog(call.st, call.fn)]
    /\ UNCHANGED program_vars

\* words[i : i + n] for a 0-based i
Slice(words, i, n) == SubSeq(words, i + 1, IF i + n < Len(words) THEN i + n ELSE Len(words))

\* TextProcessor._generate_chunks from index i on: "yield words[i : i + chunk_size]", then
\* break when the chunk has reached the last word
RECURSIVE _generate_chunks(_, _, _, _)
_generate_chunks(words, i, chunk_size, overlap) ==
    IF i >= Len(words) THEN <<>>
    ELSE <<Slice(words, i, chunk_size)>>
         \o (IF i + chunk_size >= Len(words) THEN <<>>
             ELSE _generate_chunks(words, i + chunk_size - overlap, chunk_size, overlap))

\* The words of the tagged_words of a list of chunks of which each gives all but its last
\* `drop` words
RECURSIVE TaggedWords(_, _)
TaggedWords(chunks, drop) ==
    IF Len(chunks) = 0 THEN <<>>
    ELSE SubSeq(chunks[1], 1, Len(chunks[1]) - drop) \o TaggedWords(Tail(chunks), drop)

\* TextProcessor._predict: _align_predictions gives one tagged word for every word of the
\* chunk it is handed, and every chunk is handed over whole
_predict(words, chunk_size, overlap) ==
    LET chunks == _generate_chunks(words, 0, chunk_size, overlap)
    IN  [chunks |-> chunks, tagged_words |-> TaggedWords(chunks, 0), exc |-> ""]

\* overlap_chunks of the first evolution: range(0, len(lst), n - stride) without a break
RECURSIVE overlap_chunks(_, _, _, _)
overlap_chunks(lst, i, n, stride) ==
    IF i >= Len(lst) THEN <<>>
    ELSE <<Slice(lst, i, n)>> \o overlap_chunks(lst, i + n - stride, n, stride)

\* The loop of predict of the first evolution: "if batch == batches[-1]: overlap = 0"
\* compares values, and overlap stays 0 from then on
RECURSIVE TaggedBatches(_, _, _)
TaggedBatches(batches, k, overlap) ==
    IF k > Len(batches) THEN <<>>
    ELSE LET o == IF batches[k] = batches[Len(batches)] THEN 0 ELSE overlap
         IN  SubSeq(batches[k], 1, Len(batches[k]) - o) \o TaggedBatches(batches, k + 1, o)

\* TextProcessor.predict of the first evolution (src/src/TextProcessor.py)
predict(words, chunk_size, overlap) ==
    LET o == IF Len(words) <= chunk_size THEN 0 ELSE overlap
        all == overlap_chunks(words, 0, chunk_size, o)
        batches == IF Len(all[Len(all)]) <= o THEN SubSeq(all, 1, Len(all) - 1) ELSE all
        tagged_words == TaggedBatches(batches, 1, o)
    IN  IF Len(all) = 0 THEN [chunks |-> all, tagged_words |-> <<>>, exc |-> "IndexError"]
        ELSE IF Len(tagged_words) # Len(words)
        THEN [chunks |-> all, tagged_words |-> tagged_words, exc |-> "AssertionError"]
        ELSE [chunks |-> all, tagged_words |-> tagged_words, exc |-> ""]

\* The word lists tagged: the words 0..n-1 for every length up to MaxWords, and a list
\* that repeats itself; chunks of 5 words that overlap by 2 stand for the 230 and 5 of
\* the program
MaxWords == 10

PredictCalls ==
    [fn : {"predict"}, done : {FALSE}, evolution : {"final", "legacy"},
     chunk_size : {5}, overlap : {2},
     words : {[i \in 1..n |-> i - 1] : n \in 0..MaxWords}
             \cup {<<1, 2, 3, 1, 2, 3, 1, 2>>},
     result : {[chunks |-> <<>>, tagged_words |-> <<>>, exc |-> ""]}]

call_predict ==
    /\ call.fn = "predict" /\ ~call.done
    /\ call' = [call EXCEPT !.done = TRUE,
                            !.result = IF call.evolution = "legacy"
                                       THEN predict(call.words, call.chunk_size, call.overlap)
                                       ELSE _predict(call.words, call.chunk_size, call.overlap)]
    /\ UNCHANGED program_vars

\* The prediction lists reassembled: up to three words, each labelled "0" or with a mark
ReassembleCalls ==
    LET sentence == <<"Hello", "world", "test">>
    IN  UNION {[fn : {"prediction_to_text"}, done : {FALSE}, evolution : {"final", "legacy"},
                words : {SubSeq(sentence, 1, n)}, labels : [1..n -> {"0", ".", ","}],
                result : {""}] : n \in 0..Len(sentence)}

call_prediction_to_text ==
    /\ call.fn = "prediction_to_text" /\ ~call.done
    /\ call' = [call EXCEPT !.done = TRUE,
                            !.result = IF call.evolution = "legacy"
                                       THEN prediction_to_text(call.words, call.labels)
                                       ELSE _prediction_to_text(call.words, call.labels)]
    /\ UNCHANGED program_vars

\* Utterances that start with a case-conversion trigger, with and without a remainder
CaseTriggers == {"camel case", "camelcase", "small camel case", "small camelcase", "snake case"}

DictationCalls ==
    [fn : {"handle_dictation_mode"}, done : {FALSE},
     st : {load_commands(AppState_init, Config)},
     trigger : CaseTriggers, remainder : {"", " hello world", " my var", " x"},
     result : {Handling(AppState_init, <<>>, 0, "", "none", <<>>, {})}]

\* handle_dictation_mode(app_state, texter_ui, text) for one such utterance
call_handle_dictation_mode ==
    /\ call.fn = "handle_dictation_mode" /\ ~call.done
    /\ LET text_said == call.trigger \o call.remainder
       IN  call' = [call EXCEPT
                       !.done = TRUE,
                       !.result = handle_dictation_mode(
                                      call.st, text_said, "ok",
                                      [i \in 1..Len(Split(text_said)) |-> "0"], TRUE)]
    /\ UNCHANGED program_vars

\* load_commands called again and again on one AppState with the same dictionary; first is
\* the AppState after the first call
ReloadCalls ==
    [fn : {"load_commands again"}, loads : {0}, st : {AppState_init}, first : {AppState_init}]

call_load_commands_again ==
    /\ call.fn = "load_commands again" /\ call.loads < 2
    /\ LET loaded == load_commands(call.st, Config)
       IN  call' = [call EXCEPT !.loads = @ + 1, !.st = loaded,
                                !.first = IF call.loads = 0 THEN loaded ELSE @]
    /\ UNCHANGED program_vars

\* One call is made while the rest of the program has not started
UnitInit ==
    /\ env = [evolution |-> "unit", tcl_threaded |-> FALSE, session |-> 1]
    /\ app_state = AppState_init
    /\ ui_pc = "main"
    /\ interp_pc = "unstarted"
    /\ text = ""
    /\ refresh = 0
    /\ utter = NoUtterance
    /\ after_queue = <<>>
    /\ widgets = TexterUI_init
    /\ widget_calls = {}
    /\ logged = {}
    /\ \/ call \in RecognizeCalls
       \/ call \in SwitchCalls
       \/ call \in LoadCalls
       \/ call \in NoalsaerrCalls
       \/ call \in GetCommandsCalls
       \/ call \in KeyboardCalls
       \/ call \in TerminalCalls
       \/ call \in CapitalizeCalls
       \/ call \in SpellingCalls
       \/ call \in SubCatalogCalls
       \/ call \in PredictCalls
       \/ call \in ReassembleCalls
       \/ call \in DictationCalls
       \/ call \in ReloadCalls

UnitNext ==
    \/ call_recognize_speech
    \/ call_handle_command
    \/ call_load_commands
    \/ call_noalsaerr
    \/ call_get_commands
    \/ call_KeyboardCommandExecutor
    \/ call_TerminalCommandExecutor
    \/ call_capitalize_sentences
    \/ call_convert_to_spelling
    \/ call_load_sub_catalog
    \/ call_predict
    \/ call_prediction_to_text
    \/ call_handle_dictation_mode
    \/ call_load_commands_again

UnitSpec == UnitInit /\ [][UnitNext]_vars

(***************************************************************************)
(* Properties                                                              *)
(***************************************************************************)

\* C1: in every reachable AppState, capitalize implies punctuation
C1_CapitalizeImpliesPunctuation == app_state.capitalize => app_state.punctuation

\* "switch caps" has turned capitalize on, and punctuation with it
C1_Witness ==
    /\ Final /\ text = "switch caps" /\ utter.result = "True"
    /\ app_state.capitalize /\ app_state.punctuation

\* The categories in the order the dispatch is documented to try them
DispatchOrder ==
    <<"switch", "keyboard", "programming", "terminal", "info", "selection", "spelling",
      "git", "interactive", "browser">>

\* The catalog of a category as far as it is active: the programming and terminal catalogs
\* count only while their switch is on
ActiveCatalog(st, category) ==
    CASE category = "switch" -> st.switch_commands
      [] category = "keyboard" -> st.keyboard_commands
      [] category = "programming" -> IF st.programming THEN st.programming_commands ELSE <<>>
      [] category = "terminal" -> IF st.terminal THEN st.terminal_commands ELSE <<>>
      [] category = "info" -> st.info_commands
      [] category = "selection" -> st.selection_commands
      [] category = "spelling" -> st.spelling_commands
      [] category = "git" -> st.git_commands
      [] category = "interactive" -> st.interactive_commands
      [] category = "browser" -> st.browser_commands

\* The <<category, index>> of the active commands whose name is a prefix of the utterance
PrefixCommands(st, utterance) ==
    {c \in (1..Len(DispatchOrder)) \X (1..20) :
        /\ c[2] <= Len(ActiveCatalog(st, DispatchOrder[c[1]]))
        /\ StartsWith(utterance, ActiveCatalog(st, DispatchOrder[c[1]])[c[2]].name)}

\* The step in which handle_dictation_mode calls handle_command
CallsHandleCommand == interp_pc = "dictation" /\ utter'.result # "none"

Rank(category) == CHOOSE k \in 1..Len(DispatchOrder) : DispatchOrder[k] = category

\* C3: of the active commands whose name is a prefix of the utterance, handle_command runs
\* the first one: categories in the order switch, keyboard, programming, terminal, info,
\* selection, spelling, git, interactive, browser, and list order within a category
C3_DispatchOrder ==
    [][CallsHandleCommand /\ utter'.ran # <<>> =>
           \A c \in PrefixCommands(app_state, text) :
               \/ Rank(utter'.ran[1][1]) < c[1]
               \/ Rank(utter'.ran[1][1]) = c[1] /\ utter'.ran[1][2] <= c[2]]_vars

\* "go to sleep" went to the switch command although the keyboard command "go" is loaded
C3_Witness ==
    /\ text = "go to sleep" /\ utter.ran = << <<"switch", 1>> >>
    /\ \E i \in 1..Len(app_state.keyboard_commands) : app_state.keyboard_commands[i].name = "go"
    /\ ~app_state.typing_active
    /\ utter.dictation = <<>>

\* C4: when the executor of the matched command raises, handle_command returns False and
\* nothing propagates to the interpreter loop
C4_ExecutorErrorContained ==
    utter.ran # <<>> /\ utter.exc # "" => utter.result = "False" /\ interp_pc # "except"

\* The events that type text or press keys
Keystrokes(out) ==
    {i \in 1..Len(out) : out[i].op \in {"write", "hotkey", "press"} /\ out[i].arg # ""}

\* C5, as amended: typing_active gates literal dictation only: an utterance that is no case
\* conversion and that no command handles is typed by handle_dictation_mode exactly when
\* typing_active is True
C5_TypingGatesDictation ==
    utter.result = "False" =>
        IF utter.typing
        THEN Len(utter.dictation) = 1 /\ utter.dictation[1].op = "write"
        ELSE utter.dictation = <<>>

\* While asleep, "hello alpha" was not typed as dictation, yet its letter was spelled
C5_Witness ==
    /\ utter.text = "hello alpha" /\ ~utter.typing /\ ~utter.typing_spelling
    /\ utter.result = "False" /\ utter.dictation = <<>>
    /\ utter.spelling = <<Write("a")>>

\* C5 as claimed: an utterance processed while typing_active is False produces no typed
\* text and no key presses at all
C5_Original ==
    /\ ~utter.typing => Keystrokes(utter.dictation) = {}
    /\ utter.mode # "none" /\ ~utter.typing_spelling => Keystrokes(utter.spelling) = {}

\* C6: handle_spelling_mode types nothing while the mode is dictation, and no utterance
\* yields both dictation or command output and spelling output
C6_SpellingGatedByMode ==
    /\ utter.mode = "dictation" => utter.spelling = <<>>
    /\ Keystrokes(utter.dictation) = {} \/ Keystrokes(utter.spelling) = {}

\* C7: once terminate is True the interpreter thread goes on until it has left both loops:
\* with every recognition attempt returning, it is never left unable to take its next step
C7_CooperativeTermination == app_state.terminate /\ is_alive => ENABLED InterpreterNext

\* C8: once "terminate texter" has been processed the application exits without any further
\* user action: when neither thread can do anything more by itself, the window is gone
C8_VoiceShutdown ==
    /\ utter.text = "terminate texter" /\ utter.mode # "none" /\ app_state.terminate
    /\ ~ENABLED (InterpreterNext \/ MainNext)
    => ui_pc = "destroyed"

\* C9: the Terminate handler, once it waits in the join, always completes: whatever the
\* interpreter thread is doing at that moment, the thread can go on until it has ended
C9_TerminateCompletes == ui_pc = "join" /\ is_alive => ENABLED InterpreterNext

\* C10: no widget is touched on the interpreter thread; what the interpreter thread changes
\* in the window is scheduled with root.after and done by the event loop
C10_WidgetsOnUiThread ==
    \A c \in widget_calls :
        c.thread = "ui" /\ (c.origin = "interpreter" => c.via = "after")


C12_ToggleFrames ==
    [][LET Handles(name) == \/ CallsHandleCommand /\ text = name
                            \/ env.evolution = "legacy" /\ text' = name
       IN /\ Handles("switch caps") /\ app_state.capitalize =>
                 ~app_state'.capitalize /\ app_state'.punctuation = app_state.punctuation
          /\ Handles("switch punctuation") /\ app_state.punctuation =>
                 ~app_state'.punctuation /\ ~app_state'.capitalize
          /\ Handles("switch caps") /\ ~app_state.capitalize =>
                 app_state'.capitalize /\ app_state'.punctuation]_vars


\* C13: mode is always DICTATION or SPELLING; handling "switch mode" maps each to the other
\* and changes no other field of AppState; switching twice gives the mode back
C13_SwitchModeInvolution ==
    [][LET Handles == \/ CallsHandleCommand /\ text = "switch mode"
                      \/ env.evolution = "legacy" /\ text' = "switch mode"
           Other(mode) == IF mode = "dictation" THEN "spelling" ELSE "dictation"
       IN /\ app_state.mode \in {"dictation", "spelling"}
          /\ app_state'.mode \in {"dictation", "spelling"}
          /\ switch_mode(switch_mode(app_state')) = app_state'
          /\ Handles => /\ app_state' = [app_state EXCEPT !.mode = Other(app_state.mode)]
                        /\ switch_mode(app_state') = app_state]_vars

C13_Witness ==
    /\ Final /\ text = "switch mode" /\ utter.result = "True"
    /\ utter.ran = << <<"switch", 7>> >>
    /\ app_state.mode = "spelling" /\ interp_pc = "spelling"


\* C14: after any run of "programming on", "programming off", "switch to java" and
\* "switch to python", whenever programming is on, programming_commands is the catalog
\* built from the configuration array of the selected language
C14_CatalogMatchesLanguage ==
    call.fn = "handle_command" /\ call.st.programming =>
        call.st.programming_commands =
            _load_commands(Config[call.st.programming_language \o "_commands"], "PROGRAMMING")


\* C15: for a configuration in which some arrays are absent or malformed, load_commands
\* raises nothing, and each fixed catalog whose array is present and well formed holds one
\* command per configured entry
C15_LoadToleratesFailures ==
    call.fn = "load_commands" /\ call.done =>
        /\ call.result.exc = ""
        /\ \A k \in {"info_commands", "selection_commands", "switch_commands",
                     "spelling_commands", "git_commands", "interactive_commands",
                     "browser_commands"} :
              k \in DOMAIN call.commands =>
                  /\ call.result.st[k] # None
                  /\ Len(call.result.st[k]) = Len(call.commands[k])


\* C16: once the scope of noalsaerr has been entered, the last handler given to
\* snd_lib_error_set_handler when the scope is left is None, whether the body returned or
\* raised
C16_HandlerRestored ==
    call.fn = "noalsaerr" /\ call.done /\ call.library = "loaded" =>
        /\ call.result.handlers # <<>>
        /\ call.result.handlers[Len(call.result.handlers)] = "None"


C20_OnlySentenceInitialsChange ==
    LET t == call.text
        Initial(i) == \/ i = 1
                      \/ i >= 3 /\ CharAt(t, i - 1) = " " /\ CharAt(t, i - 2) \in {".", "?", "!"}
    IN  call.fn = "capitalize_sentences" /\ call.done =>
            /\ Len(call.result) = Len(t)
            /\ \A i \in 1..Len(t) :
                  CharAt(call.result, i) = IF Initial(i) THEN UpperChar(CharAt(t, i)) ELSE CharAt(t, i)

\* C21: for every text and every catalog, one with a repeated name included,
\* convert_to_spelling returns the concatenation, in word order, of the key of the first
\* catalog entry named as each whitespace-separated word; a word without an entry
\* contributes nothing
C21_SpellingFirstEntry ==
    LET cat == call.spelling_commands
        Named(w) == {i \in 1..Len(cat) : cat[i].name = w}
        First(w) == CHOOSE i \in Named(w) : \A j \in Named(w) : i <= j
        HasEntry(w) == Named(w) # {}
        matched == SelectSeq(Split(call.text), HasEntry)
    IN  call.fn = "convert_to_spelling" /\ call.done =>
            /\ Len(call.result) = Len(matched)
            /\ \A k \in 1..Len(matched) : CharAt(call.result, k) = cat[First(matched[k])].key

\* C22: once every scheduled status refresh has been applied and the interpreter thread has
\* no refresh left to ask for, the status panel shows the status string composed from the
\* current AppState, whatever the interleaving of voice commands and button clicks was
C22_StatusConverges ==
    /\ Final /\ ui_pc = "mainloop"
    /\ after_queue = <<>> /\ interp_pc \notin {"print_status", "update_status"} /\ refresh = 0
    => widgets.status_text_box = StatusMessage(app_state)

\* C23: in every interleaving of start-up with the interpreter's first utterances, the
\* interpreter thread never calls append_text while input_text_box is still None and never
\* calls terminate_all_threads while the window's app_state is still None
C23_StartupOrdering ==
    [][/\ interp_pc = "append" /\ interp_pc' # "append" => widgets.input_text_box # "<None>"
       /\ interp_pc = "dictation" /\ interp_pc' # "dictation" /\ StartsWith(text, "terminate texter")
             => ui_initialised]_vars

\* C24: whatever commands came before, with programming off handle_command runs no
\* programming command and reports an utterance only a programming command matches as not
\* handled, and with terminal off it runs no terminal command; with the flag on (again)
\* the same utterance is dispatched to its command
C24_CategorySwitchesGate ==
    LET last == call.said[Len(call.said)]
        Gated(on, category) ==
            IF on THEN /\ call.result = "True"
                       /\ Len(call.ran) = 1 /\ call.ran[1][1] = category
            ELSE call.result = "False" /\ call.ran = <<>> /\ call.out = <<>>
    IN  call.fn = "handle_command" /\ call.said # <<>> =>
            /\ last = "print statement" => Gated(call.st.programming, "programming")
            /\ last = "list directory contents" => Gated(call.st.terminal, "terminal")

C24_Witness ==
    /\ call.fn = "handle_command"
    /\ call.said = <<"programming off", "programming on", "print statement">>
    /\ call.result = "True" /\ call.ran = << <<"programming", 1>> >>

\* C25: load_programming_commands (resp. load_terminal_commands) raises nothing and changes
\* at most programming_commands (resp. terminal_commands); when its category is off, or
\* no configuration was ever loaded, it changes nothing at all
C25_SubCatalogFrame ==
    LET own == IF call.fn = "load_programming_commands" THEN "programming_commands"
               ELSE "terminal_commands"
        on == IF call.fn = "load_programming_commands" THEN call.st.programming
              ELSE call.st.terminal
    IN  call.fn \in {"load_programming_commands", "load_terminal_commands"} /\ call.done =>
            /\ call.result.exc = ""
            /\ \A f \in DOMAIN call.st \ {own} : call.result.st[f] = call.st[f]
            /\ ~on \/ call.st.commands = AppState_init.commands => call.result.st = call.st

\* C26: one recognized "switch mode" flips the mode exactly once: of the steps that process
\* the utterance (append_text, the dictation handler with its catalog dispatch and status
\* refreshes, the spelling handler) the one that dispatches it runs exactly one command,
\* the switch command, and changes the mode to the other one; no other step changes the
\* mode; and nothing is typed for the utterance. In the first evolution the inline
\* handling of the utterance flips the mode
C26_SwitchModeOnce ==
    [][LET Other(mode) == IF mode = "dictation" THEN "spelling" ELSE "dictation"
       IN  /\ Final /\ text = "switch mode" /\ text' = text =>
                 /\ app_state'.mode = IF CallsHandleCommand THEN Other(app_state.mode)
                                      ELSE app_state.mode
                 /\ CallsHandleCommand => Len(utter'.ran) = 1 /\ utter'.ran[1][1] = "switch"
                 /\ utter'.dictation = <<>> /\ utter'.spelling = <<>>
           /\ env.evolution = "legacy" /\ text' = "switch mode" =>
                 app_state'.mode = Other(app_state.mode)]_vars

C26_Witness ==
    /\ Final /\ text = "switch mode" /\ interp_pc = "loop"
    /\ utter.ran = << <<"switch", 7>> >> /\ utter.mode = "dictation"
    /\ utter.dictation = <<>> /\ utter.spelling = <<>>

\* C27: for every word list, also one longer than a chunk, the tagged output holds every
\* input word once and in input order, and the chunk generator yields no chunk after the
\* one that reaches the last word; chunks of 5 overlapping by 2 over 0..9 are 0..4, 3..7
\* and 6..9
C27_ChunkingPreservesWords ==
    LET chunks == call.result.chunks
    IN  call.fn = "predict" /\ call.done =>
            /\ call.result.exc = ""
            /\ call.result.tagged_words = call.words
            /\ call.words = [i \in 1..Len(call.words) |-> i - 1] =>
                  \A k \in 1..(Len(chunks) - 1) :
                     chunks[k][Len(chunks[k])] # Len(call.words) - 1
            /\ call.words = [i \in 1..10 |-> i - 1] =>
                  chunks = << <<0, 1, 2, 3, 4>>, <<3, 4, 5, 6, 7>>, <<6, 7, 8, 9>> >>

\* C28: for every prediction list the output is the words in order separated by single
\* spaces, each word labelled with a mark immediately followed by that mark, also when
\* the next word carries a mark too, each word labelled "0" followed by nothing, and no
\* trailing space
C28_EveryMarkEmitted ==
    call.fn = "prediction_to_text" /\ call.done =>
        call.result = Join([i \in 1..Len(call.words) |->
                               call.words[i] \o (IF call.labels[i] = "0" THEN ""
                                                 ELSE call.labels[i])], " ")

\* C29: for every utterance that starts with one of the five case-conversion triggers,
\* handle_dictation_mode types the case conversion of exactly the text after the trigger
\* and its separating space, dispatches no command, types nothing else and raises
\* nothing, also when the remainder is empty
C29_TriggerStrippedExactly ==
    call.fn = "handle_dictation_mode" /\ call.done =>
        LET rest == SliceFrom(call.remainder, 1)
            words == MapCapitalize(Split(rest))
            converted ==
                IF call.trigger = "snake case" THEN string_to_snake_case(rest)
                ELSE IF call.trigger \in {"camel case", "camelcase"} \/ Len(words) = 0
                THEN Join(words, "")
                ELSE Join(<<Lower(words[1])>> \o Tail(words), "")
        IN  /\ call.result.exc = ""
            /\ call.result.result = "none"
            /\ call.result.ran = <<>>
            /\ call.result.out = <<Write(converted)>>

\* C30: after load_commands is called twice with the same configuration dictionary every
\* catalog equals its contents after the first call, no entry being duplicated
C30_LoadCommandsIdempotent ==
    call.fn = "load_commands again" /\ call.loads = 2 => call.st = call.first

=============================================================================
